---- MODULE Spec2Model ----
(***************************************************************************)
(* Request/response bridging and failover engine of AIStudioToAPI.         *)
(*                                                                         *)
(*   MessageQueue        src/src/utils/messageQueue.js                     *)
(*   AuthSwitcher        src/src/auth/authSwitcher.js (lines 254-500)      *)
(*   RequestHandler      src/src/auth/authSwitcher.js (lines 519-1484)     *)
(*   BrowserManager      src/src/auth/authSwitcher.js (lines 1505-2403)    *)
(*   ProxyServerSystem   src/unnamed/part_004                              *)
(*   agent (ProxySystem) src/scripts/client/build.js                       *)
(*                                                                         *)
(* One action is one run of JavaScript between two suspensions that wait   *)
(* for a timer or for I/O: awaits that are settled by the same turn        *)
(* (an async function that returns without waiting) continue in microtasks *)
(* before any other callback runs and belong to the same action.           *)
(*                                                                         *)
(* An operator that takes a state, a queue or a body binds it once, as in  *)
(*     f(s_, c) == CHOOSE n_ \in {(e) : s \in {s_}} : TRUE                  *)
(* which is e with s_ for s: TLC evaluates the argument of an operator at  *)
(* each of its uses when it computes ENABLED, the bound s is evaluated     *)
(* once.                                                                   *)
(***************************************************************************)
EXTENDS Integers, Sequences, FiniteSets, TLC

(***************************************************************************)
(* Bounds of the model.                                                    *)
(***************************************************************************)
MaxEnqueues == 4        \* enqueue calls on the stand-alone queue
MaxDequeues == 3        \* dequeue calls on the stand-alone queue

Waiters == 1..MaxDequeues
FrameNames == {"f1", "f2", "f3"}

NoWaiter == 0
NoMsg == [type |-> "none"]

(***************************************************************************)
(* MessageQueue (messageQueue.js 15-65) as a value:                        *)
(*   messages          buffered frames, oldest first                       *)
(*   waitingResolvers  pending dequeue calls, oldest first                 *)
(*   closed                                                                *)
(* An operation returns the new queue and what it settled.                 *)
(***************************************************************************)
MessageQueue == [messages |-> <<>>, waitingResolvers |-> <<>>, closed |-> FALSE]

RemoveAt(s, i) == SubSeq(s, 1, i - 1) \o SubSeq(s, i + 1, Len(s))

\* Array.prototype.indexOf, 1-based; 0 when absent
IndexOf(s, x) ==
    IF \E i \in 1..Len(s) : s[i] = x
    THEN CHOOSE i \in 1..Len(s) : s[i] = x /\ \A j \in 1..(i - 1) : s[j] # x
    ELSE 0

\* an enqueue that buffers the frame whether or not a waiter is pending
enqueueAlwaysBuffers(q_, m) ==
    CHOOSE n_ \in {(
        IF q.closed THEN [q |-> q, resolved |-> NoWaiter]
        ELSE [q |-> [q EXCEPT !.messages = Append(@, m)], resolved |-> NoWaiter]
    ) : q \in {q_}} : TRUE

\* enqueue(message): resolved is the waiter handed the frame, or NoWaiter
enqueue(q_, m) ==
    CHOOSE n_ \in {(
        IF q.closed THEN [q |-> q, resolved |-> NoWaiter]
        ELSE IF Len(q.waitingResolvers) > 0
        THEN [q |-> [q EXCEPT !.waitingResolvers = Tail(@)],
              resolved |-> Head(q.waitingResolvers)]
        ELSE [q |-> [q EXCEPT !.messages = Append(@, m)], resolved |-> NoWaiter]
    ) : q \in {q_}} : TRUE

\* a dequeue that takes the newest buffered frame (pop instead of shift)
dequeueNewest(q_, w) ==
    CHOOSE n_ \in {(
        IF q.closed THEN [q |-> q, out |-> "throw", msg |-> NoMsg]
        ELSE IF Len(q.messages) > 0
        THEN [q |-> [q EXCEPT !.messages = SubSeq(@, 1, Len(@) - 1)],
              out |-> "resolved", msg |-> q.messages[Len(q.messages)]]
        ELSE [q |-> [q EXCEPT !.waitingResolvers = Append(@, w)],
              out |-> "pending", msg |-> NoMsg]
    ) : q \in {q_}} : TRUE

\* dequeue(timeoutMs) called by w: "throw" (Queue is closed), "resolved" with
\* the oldest buffered frame, or "pending" with w registered and its timer armed
dequeue(q_, w) ==
    CHOOSE n_ \in {(
        IF q.closed THEN [q |-> q, out |-> "throw", msg |-> NoMsg]
        ELSE IF Len(q.messages) > 0
        THEN [q |-> [q EXCEPT !.messages = Tail(@)],
              out |-> "resolved", msg |-> Head(q.messages)]
        ELSE [q |-> [q EXCEPT !.waitingResolvers = Append(@, w)],
              out |-> "pending", msg |-> NoMsg]
    ) : q \in {q_}} : TRUE

\* a dequeue without a timer: nothing rejects a promise that no frame resolves
timeoutFiredNever(q, w) == [q |-> q, rejected |-> FALSE]

\* a timeout callback that rejects the promise and leaves the resolver registered
timeoutFiredKeep(q_, w) ==
    CHOOSE n_ \in {(
        [q |-> q, rejected |-> IndexOf(q.waitingResolvers, w) # 0]
    ) : q \in {q_}} : TRUE

\* a timer that rejects its promise without looking for the resolver
timeoutFiredUnchecked(q_, w) ==
    CHOOSE n_ \in {(
        [q |-> IF IndexOf(q.waitingResolvers, w) > 0
               THEN [q EXCEPT !.waitingResolvers = RemoveAt(@, IndexOf(@, w))]
               ELSE q,
         rejected |-> TRUE]
    ) : q \in {q_}} : TRUE

\* the setTimeout callback of w's dequeue: rejects only a still registered waiter
timeoutFired(q_, w) ==
    CHOOSE n_ \in {(
        LET index == IndexOf(q.waitingResolvers, w) IN
        IF index # 0
        THEN [q |-> [q EXCEPT !.waitingResolvers = RemoveAt(@, index)], rejected |-> TRUE]
        ELSE [q |-> q, rejected |-> FALSE]
    ) : q \in {q_}} : TRUE

\* a close that rejects the waiters and keeps them registered
closeKeepsWaiters(q_) ==
    CHOOSE n_ \in {(
        [q |-> [q EXCEPT !.messages = <<>>, !.closed = TRUE],
         rejected |-> q.waitingResolvers]
    ) : q \in {q_}} : TRUE

\* close(): rejected is the sequence of waiters rejected with "Queue closed"
close(q_) ==
    CHOOSE n_ \in {(
        [q |-> [messages |-> <<>>, waitingResolvers |-> <<>>, closed |-> TRUE],
         rejected |-> q.waitingResolvers]
    ) : q \in {q_}} : TRUE

(***************************************************************************)
(* The engine.                                                             *)
(*                                                                         *)
(* Bounds: calls that arrive in one behaviour, frames an agent operation   *)
(* emits between the headers and the stream end, channel losses.           *)
(***************************************************************************)
NumCalls == 2
MaxChunks == 1
MaxUses == 2
MaxRetriesBound == 3

Calls == 1..NumCalls
Operator == 0                       \* the PUT /api/accounts/current handler
Bg(c) == NumCalls + c               \* the switch a call's finally block starts
Procs == 0..(2 * NumCalls)
Startup == 2 * NumCalls + 1         \* the startup loop of ProxyServerSystem.start

NoIdx == -1                         \* BrowserManager: no account is active
\* build.js 458-465: an error frame carries error.status || 504; a cancelled
\* operation fails with a DOMException without status
ErrorFrames ==
    {[status |-> 429, aborted |-> FALSE], [status |-> 500, aborted |-> FALSE],
     [status |-> 504, aborted |-> TRUE]}
ChunkData == {"a"}

VARIABLES
    config,                     \* maxRetries, switchOnUses, failureThreshold, immediateSwitchStatusCodes
    availableIndices,           \* AuthSource.availableIndices
    streamingMode,              \* ProxyServerSystem.streamingMode
    currentAuthIndex,           \* BrowserManager._currentAuthIndex
    failureCount, usageCount,   \* AuthSwitcher counters
    isSystemBusy,               \* AuthSwitcher.isSystemBusy
    needsSwitchingAfterRequest, \* RequestHandler.needsSwitchingAfterRequest
    connected,                  \* ConnectionRegistry.hasActiveConnections()
    startup,                    \* ProxyServerSystem.start: position in the startup loop
    sw,                         \* per caller: its switchToNextAuth / switchToSpecificAuth activation
    pc, rq, attempt, lastError, \* per call: position, request, retry loop state
    res,                        \* per call: the HTTP response
    queues,                     \* ConnectionRegistry: request id -> MessageQueue
    agent,                      \* per call: operations the agent runs for its request id
    forwards,                   \* per call: proxy_request envelopes sent
    cancels,                    \* per call: cancel_request envelopes sent
    outcomes,                   \* per call: how its attempts ended so far: "error" (an error
                                \* frame), "silent" (no frame in time), "nochannel", "ok"
    trigger,                    \* the call that set needsSwitchingAfterRequest
    env                         \* process.env as loadConfiguration found it

\* a MessageQueue on its own, with the promises its dequeue calls returned
VARIABLES queue, promise, timer, enqLog, deqLog, waited

qvars == <<queue, promise, timer, enqLog, deqLog, waited>>

\* the FormatConverter on its own: the inputs of its translations and, once a
\* translation was made, what it returned
VARIABLES
    forceThinking,              \* ProxyServerSystem.forceThinking
    openaiBody,                 \* the body of a chat-dialect request
    googleRequest,              \* <<>>, or <<what translateOpenAIToGoogle returned>>
    googleResponse,             \* a complete response of the agent, parsed
    openAIChunk,                \* <<>>, or <<what translateGoogleToOpenAIStream returned>>
    openAIResponse              \* <<>>, or <<what convertGoogleToOpenAINonStream returned>>

fvars == <<forceThinking, openaiBody, googleRequest, googleResponse, openAIChunk,
           openAIResponse>>

cfgvars == <<config, availableIndices, streamingMode, env>>
evars == <<currentAuthIndex, failureCount, usageCount, isSystemBusy,
           needsSwitchingAfterRequest, connected, startup, sw, pc, rq, attempt,
           lastError, res, queues, agent, forwards, cancels, outcomes, trigger>>

\* the engine's mutable state as one value, so that the code's statements compose
State ==
    [currentAuthIndex |-> currentAuthIndex, failureCount |-> failureCount,
     usageCount |-> usageCount, isSystemBusy |-> isSystemBusy,
     needsSwitchingAfterRequest |-> needsSwitchingAfterRequest,
     connected |-> connected, startup |-> startup, sw |-> sw, pc |-> pc, rq |-> rq,
     attempt |-> attempt, lastError |-> lastError, res |-> res, queues |-> queues,
     agent |-> agent, forwards |-> forwards, cancels |-> cancels,
     outcomes |-> outcomes, trigger |-> trigger]

NoQueue == [messages |-> <<>>, waitingResolvers |-> <<>>, closed |-> TRUE]
NoError == [status |-> 0, aborted |-> FALSE, att |-> 0]
NoRequest == [dialect |-> "none", stream |-> FALSE, generative |-> FALSE,
              translatable |-> TRUE]
NoResponse == [status |-> 0, msg |-> "", headersSent |-> FALSE, ended |-> FALSE,
               body |-> <<>>]
\* what the message of an Error thrown by a switch tells: a number of accounts
\* and the account indices it names
NoMessage == [count |-> 0, accounts |-> <<>>]

IdleSwitch == [pc |-> "idle", i |-> 0, startIndex |-> 0, failedAccounts |-> <<>>,
               target |-> NoIdx, cur0 |-> NoIdx, trigger |-> 0,
               result |-> "none", newIndex |-> NoIdx, message |-> NoMessage]

EngineIdle ==
    /\ currentAuthIndex = NoIdx
    /\ failureCount = 0
    /\ usageCount = 0
    /\ isSystemBusy = FALSE
    /\ needsSwitchingAfterRequest = FALSE
    /\ connected = FALSE
    /\ startup = [pc |-> "boot", k |-> 0]
    /\ sw = [p \in Procs |-> IdleSwitch]
    /\ pc = [c \in Calls |-> "idle"]
    /\ rq = [c \in Calls |-> NoRequest]
    /\ attempt = [c \in Calls |-> 0]
    /\ lastError = [c \in Calls |-> NoError]
    /\ res = [c \in Calls |-> NoResponse]
    /\ queues = [c \in Calls |-> NoQueue]
    /\ agent = [c \in Calls |-> <<>>]
    /\ forwards = [c \in Calls |-> 0]
    /\ cancels = [c \in Calls |-> 0]
    /\ outcomes = [c \in Calls |-> {}]
    /\ trigger = 0

(***************************************************************************)
(* BrowserManager.launchOrSwitchContext(authIndex), lines 2019-2369, and   *)
(* switchAccount, 2398-2402.  The call suspends while the browser and the  *)
(* context are created.  It starts closing the old context (2052-2060);    *)
(* the channel of the old page drops some time later, which is a step of   *)
(* its own (ChannelDrop).  It settles either by adopting authIndex (2358)  *)
(* with the new page connected in place of the old one, or by closing the  *)
(* browser and resetting _currentAuthIndex to -1 (2363-2368).  The auth    *)
(* sources are taken as stable: getAuth of a member of availableIndices    *)
(* succeeds.                                                               *)
(***************************************************************************)
launchBegin(s_) ==
    CHOOSE n_ \in {(
     s
    ) : s \in {s_}} : TRUE

launchSucceeded(s_, authIndex) ==
    CHOOSE n_ \in {(
        [s EXCEPT !.currentAuthIndex = authIndex, !.connected = TRUE,
                  !.agent = [c \in Calls |-> <<>>]]
    ) : s \in {s_}} : TRUE

launchFailed(s_) ==
    CHOOSE n_ \in {(
        [s EXCEPT !.currentAuthIndex = NoIdx, !.connected = FALSE,
                  !.agent = [c \in Calls |-> <<>>]]
    ) : s \in {s_}} : TRUE

\* launchOrSwitchContext calls that have not settled yet, by caller
Launching ==
    {p \in Procs : sw[p].pc # "idle"}
        \cup {c \in Calls : pc[c] = "recovery"}
        \cup (IF startup.pc = "launch" THEN {Startup} ELSE {})

(***************************************************************************)
(* AuthSwitcher, lines 254-500.  JavaScript arrays are 0-based:            *)
(* available[j] is availableIndices[j + 1].                                *)
(***************************************************************************)
available(j_) ==
    CHOOSE n_ \in {(
     availableIndices[j + 1]
    ) : j \in {j_}} : TRUE

indexOf(x_) ==
    CHOOSE n_ \in {(
     IndexOf(availableIndices, x) - 1
    ) : x \in {x_}} : TRUE

\* a guard that lets every switch request through
neverInProgress(s_) ==
    CHOOSE n_ \in {(
     FALSE
    ) : s \in {s_}} : TRUE

\* lines 297-300 and 409-412: "Switch already in progress."
switchInProgress(s_) ==
    CHOOSE n_ \in {(
     s.isSystemBusy
    ) : s \in {s_}} : TRUE

\* a walk that starts at the current account instead of just after it
tryIndexFromCurrent(startIndex_, i) ==
    CHOOSE n_ \in {(
     (startIndex + i - 1) % Len(availableIndices)
    ) : startIndex \in {startIndex_}} : TRUE

\* line 344: the i-th candidate of the walk
tryIndex(startIndex_, i) ==
    CHOOSE n_ \in {(
     (startIndex + i) % Len(availableIndices)
    ) : startIndex \in {startIndex_}} : TRUE

\* resetting only the failure counter
resetFailureOnly(s_) ==
    CHOOSE n_ \in {(
     [s EXCEPT !.failureCount = 0]
    ) : s \in {s_}} : TRUE

\* lines 317-318, 353-354, 381-382, 424-425
resetCounters(s_) ==
    CHOOSE n_ \in {(
     [s EXCEPT !.failureCount = 0, !.usageCount = 0]
    ) : s \in {s_}} : TRUE

\* line 398, in the catch block of the final attempt: this.currentAuthIndex = 0
finalAttemptFailed(s_) ==
    CHOOSE n_ \in {(
     [s EXCEPT !.currentAuthIndex = 0]
    ) : s \in {s_}} : TRUE

\* switchToNextAuth() called by p, up to its first suspension (lines 290-352);
\* while a switch is in progress it returns at once and nothing changes
switchToNextAuth(s_, p, why) ==
    CHOOSE n_ \in {(
        IF switchInProgress(s)
        THEN s
        ELSE LET b == [s EXCEPT !.isSystemBusy = TRUE] IN
             IF Len(availableIndices) = 1
             THEN launchBegin([b EXCEPT !.sw[p] =
                      [IdleSwitch EXCEPT !.pc = "single", !.target = available(0),
                                         !.cur0 = s.currentAuthIndex, !.trigger = why]])
             ELSE LET currentIndexInArray == indexOf(s.currentAuthIndex)
                      startIndex == IF currentIndexInArray # -1 THEN currentIndexInArray ELSE 0
                  IN launchBegin([b EXCEPT !.sw[p] =
                      [IdleSwitch EXCEPT !.pc = "loop", !.i = 1, !.startIndex = startIndex,
                                         !.target = available(tryIndex(startIndex, 1)),
                                         !.cur0 = s.currentAuthIndex, !.trigger = why]])
    ) : s \in {s_}} : TRUE

\* a membership test that lets every target through
isValidTargetAlways(targetIndex_) ==
    CHOOSE n_ \in {(
     TRUE
    ) : targetIndex \in {targetIndex_}} : TRUE

\* line 413: availableIndices.includes(targetIndex)
isValidTarget(targetIndex_) ==
    CHOOSE n_ \in {(
     indexOf(targetIndex) # -1
    ) : targetIndex \in {targetIndex_}} : TRUE

\* switchToSpecificAuth(targetIndex) called by p, up to its suspension (408-423)
switchToSpecificAuth(s_, p, targetIndex) ==
    CHOOSE n_ \in {(
        IF switchInProgress(s)
        THEN s
        ELSE IF ~isValidTarget(targetIndex)
        THEN s
        ELSE launchBegin([s EXCEPT !.isSystemBusy = TRUE,
                                   !.sw[p] = [IdleSwitch EXCEPT !.pc = "specific",
                                                !.target = targetIndex,
                                                !.cur0 = s.currentAuthIndex]])
    ) : s \in {s_}} : TRUE

\* a return that leaves isSystemBusy set
switchReturnsKeepBusy(s_, p, result, newIndex) ==
    CHOOSE n_ \in {(
        [s EXCEPT !.sw[p] = [IdleSwitch EXCEPT !.result = result, !.newIndex = newIndex]]
    ) : s \in {s_}} : TRUE

\* the switch of p returns or throws: the finally block releases isSystemBusy
switchReturns(s_, p, result, newIndex) ==
    CHOOSE n_ \in {(
        [s EXCEPT !.isSystemBusy = FALSE,
                  !.sw[p] = [IdleSwitch EXCEPT !.result = result, !.newIndex = newIndex]]
    ) : s \in {s_}} : TRUE

\* lines 399-401: "All ${available.length} available accounts failed to
\* initialize (including final retry)."; the failed accounts are only logged
allAccountsFailed(s_, p) ==
    CHOOSE n_ \in {(
        [s EXCEPT !.sw[p].message = [count |-> Len(availableIndices), accounts |-> <<>>]]
    ) : s \in {s_}} : TRUE

\* the launch awaited by p's switch settles (lines 316-328, 351-402, 423-433):
\* either the switch returns or it launches its next candidate
switchLaunchSettled(s_, p, ok) ==
    CHOOSE n_ \in {(
        LET a == s.sw[p]
            n == Len(availableIndices)
        IN IF ok
           THEN switchReturns(resetCounters(launchSucceeded(s, a.target)), p, "success", a.target)
           ELSE LET f == [launchFailed(s) EXCEPT
                            !.sw[p].failedAccounts = Append(@, a.target)]
                IN CASE a.pc = "loop" /\ a.i + 1 < n ->
                          launchBegin([f EXCEPT !.sw[p].i = a.i + 1,
                              !.sw[p].target = available(tryIndex(a.startIndex, a.i + 1))])
                     [] a.pc = "loop" ->
                          launchBegin([f EXCEPT !.sw[p].pc = "final",
                              !.sw[p].target = available(a.startIndex)])
                     [] a.pc = "final" ->
                          allAccountsFailed(
                              switchReturns(finalAttemptFailed(f), p, "thrown", NoIdx), p)
                     [] OTHER -> switchReturns(f, p, "thrown", NoIdx)
    ) : s \in {s_}} : TRUE

\* an immediate switch that is made only while the failure threshold is enabled
isImmediateSwitchGated(errorDetails_) ==
    CHOOSE n_ \in {(
        config.failureThreshold > 0
            /\ errorDetails.status \in config.immediateSwitchStatusCodes
    ) : errorDetails \in {errorDetails_}} : TRUE

\* line 448
isImmediateSwitch(errorDetails_) ==
    CHOOSE n_ \in {(
        errorDetails.status \in config.immediateSwitchStatusCodes
    ) : errorDetails \in {errorDetails_}} : TRUE

\* a threshold that has to be exceeded
isThresholdExceeded(s_) ==
    CHOOSE n_ \in {(
        config.failureThreshold > 0 /\ s.failureCount > config.failureThreshold
    ) : s \in {s_}} : TRUE

\* lines 449-450
isThresholdReached(s_) ==
    CHOOSE n_ \in {(
        config.failureThreshold > 0 /\ s.failureCount >= config.failureThreshold
    ) : s \in {s_}} : TRUE

\* lines 436-485: p's switch is started when the status is an immediate-switch
\* code or the threshold is reached; the caller awaits it
handleRequestFailureAndSwitch(s_, c, errorDetails) ==
    CHOOSE n_ \in {(
        LET f == [s EXCEPT !.failureCount = @ + 1]
        IN IF isImmediateSwitch(errorDetails) \/ isThresholdReached(f)
           THEN switchToNextAuth(f, c, 0)
           ELSE f
    ) : s \in {s_}} : TRUE

\* lines 487-494
incrementUsageCount(s_) ==
    CHOOSE n_ \in {(
     [s EXCEPT !.usageCount = @ + 1]
    ) : s \in {s_}} : TRUE

shouldSwitchByUsage(s_) ==
    CHOOSE n_ \in {(
        config.switchOnUses > 0 /\ s.usageCount >= config.switchOnUses
    ) : s \in {s_}} : TRUE

(***************************************************************************)
(* RequestHandler, lines 519-1484.                                         *)
(*                                                                         *)
(* A request is [dialect, stream, generative]; its dispatch path:          *)
(*   nonstream    processRequest -> _handleNonStreamResponse               *)
(*   pseudo       processRequest -> _handlePseudoStreamResponse            *)
(*   real         processRequest -> _handleRealStreamResponse              *)
(*   oaiReal      processOpenAIRequest, useRealStream                      *)
(*   oaiBuffered  processOpenAIRequest, fake stream or non-stream          *)
(* A frame is [type, status, data, aborted, att]: aborted says that the    *)
(* message of an error frame includes "The user aborted a request", att    *)
(* names the forward the agent emitted the frame for.                      *)
(***************************************************************************)
\* translatable: formatConverter.translateOpenAIToGoogle accepts the body
Requests ==
    [dialect : {"native"}, stream : BOOLEAN, generative : BOOLEAN, translatable : {TRUE}]
        \cup [dialect : {"openai"}, stream : BOOLEAN, generative : {TRUE},
              translatable : BOOLEAN]

\* lines 683-700 and 740-743
PathOf(r) ==
    IF r.dialect = "native"
    THEN IF r.stream
         THEN (IF streamingMode = "fake" THEN "pseudo" ELSE "real")
         ELSE "nonstream"
    ELSE IF r.stream /\ streamingMode = "real" THEN "oaiReal" ELSE "oaiBuffered"

Path(s, c) == PathOf(s.rq[c])

Frame(type, status, data, aborted, att) ==
    [type |-> type, status |-> status, data |-> data, aborted |-> aborted, att |-> att]

\* res.end()
end(s_, c) ==
    CHOOSE n_ \in {(
     [s EXCEPT !.res[c].ended = TRUE, !.res[c].headersSent = TRUE]
    ) : s \in {s_}} : TRUE

\* res.write(data)
write(s_, c, data) ==
    CHOOSE n_ \in {(
        IF s.res[c].ended THEN s
        ELSE [s EXCEPT !.res[c].headersSent = TRUE,
                       !.res[c].status = IF @ = 0 THEN 200 ELSE @,
                       !.res[c].body = Append(@, data)]
    ) : s \in {s_}} : TRUE

\* lines 1340-1353
_sendErrorResponse(s_, c, status, message) ==
    CHOOSE n_ \in {(
        IF ~s.res[c].headersSent
        THEN [s EXCEPT !.res[c] = [status |-> IF status = 0 THEN 500 ELSE status,
                                   msg |-> message, headersSent |-> TRUE,
                                   ended |-> TRUE, body |-> <<>>]]
        ELSE s
    ) : s \in {s_}} : TRUE

\* lines 1327-1338; timeout: the error message includes "timeout"
_handleRequestError(s_, c, timeout) ==
    CHOOSE n_ \in {(
        IF s.res[c].headersSent
        THEN end(IF streamingMode = "fake" THEN write(s, c, "error") ELSE s, c)
        ELSE _sendErrorResponse(s, c, IF timeout THEN 504 ELSE 500, "Proxy error")
    ) : s \in {s_}} : TRUE

\* lines 1467-1479, with a channel: the proxy_request envelope is sent and the
\* agent starts an operation for it (build.js 357-369)
_forwardRequest(s_, c) ==
    CHOOSE n_ \in {(
        [s EXCEPT !.forwards[c] = @ + 1,
                  !.agent[c] = Append(@, [att |-> s.attempt[c], st |-> "new", chunks |-> 0])]
    ) : s \in {s_}} : TRUE

\* a cleanup that leaves the queue of the call registered
finallyBlockKeepsQueue(s_, c) ==
    CHOOSE n_ \in {(
        LET r == end([s EXCEPT !.pc[c] = "done", !.agent[c] = <<>>], c)
        IN IF s.needsSwitchingAfterRequest
           THEN [switchToNextAuth(r, Bg(c), s.trigger) EXCEPT
                    !.needsSwitchingAfterRequest = FALSE, !.trigger = 0]
           ELSE r
    ) : s \in {s_}} : TRUE

\* lines 703-714 and 860-873: the queue is removed, the switch that a usage
\* ceiling asked for is started without being awaited, the response is ended.
\* Frames for a removed queue are discarded, so the operations the agent still
\* runs for the call are forgotten with it.
finallyBlock(s_, c) ==
    CHOOSE n_ \in {(
        LET r == end([s EXCEPT !.queues[c] = close(s.queues[c]).q, !.pc[c] = "done",
                               !.agent[c] = <<>>], c)
        IN IF s.needsSwitchingAfterRequest
           THEN [switchToNextAuth(r, Bg(c), s.trigger) EXCEPT
                    !.needsSwitchingAfterRequest = FALSE, !.trigger = 0]
           ELSE r
    ) : s \in {s_}} : TRUE

\* what follows the awaited handleRequestFailureAndSwitch on each path:
\* lines 1058 and 1127 send the error response after it
afterFailureSwitch(s_, c) ==
    CHOOSE n_ \in {(
        LET e == s.lastError[c]
            r == IF Path(s, c) \in {"nonstream", "real"}
                 THEN _sendErrorResponse(s, c, e.status, "agent")
                 ELSE s
        IN finallyBlock(r, c)
    ) : s \in {s_}} : TRUE

\* lines 908, 1051, 1121: the paths that leave a cancellation out of the
\* failure statistics
cancelledByUser(path_, errorDetails) ==
    CHOOSE n_ \in {(
        path \in {"nonstream", "pseudo", "real"} /\ errorDetails.aborted
    ) : path \in {path_}} : TRUE

\* the call failed with errorDetails: lines 786-797, 816-824, 907-923,
\* 1050-1062, 1119-1128
requestFailed(s_, c, errorDetails) ==
    CHOOSE n_ \in {(
        LET path == Path(s, c)
            l == [s EXCEPT !.lastError[c] = errorDetails]
        IN IF cancelledByUser(path, errorDetails)
           THEN finallyBlock(IF path = "nonstream"
                             THEN _sendErrorResponse(l, c, errorDetails.status, "agent")
                             ELSE l, c)
           ELSE LET r == IF path \in {"pseudo", "oaiReal", "oaiBuffered"}
                         THEN _sendErrorResponse(l, c, errorDetails.status, "agent")
                         ELSE l
                    h == handleRequestFailureAndSwitch(r, c, errorDetails)
                IN IF h.sw[c].pc # "idle"
                   THEN [h EXCEPT !.pc[c] = "failswitch"]
                   ELSE afterFailureSwitch(h, c)
    ) : s \in {s_}} : TRUE

\* a retry loop that makes one attempt more than maxRetries
lastAttemptOffByOne(s_, c) ==
    CHOOSE n_ \in {(
     s.attempt[c] > config.maxRetries
    ) : s \in {s_}} : TRUE

\* line 1252
lastAttempt(s_, c) ==
    CHOOSE n_ \in {(
     s.attempt[c] >= config.maxRetries
    ) : s \in {s_}} : TRUE

\* a catch block that reports every failed attempt to the AuthSwitcher
attemptFailedCounts(s_, c, errorPayload, outcome) ==
    CHOOSE n_ \in {(
        LET l == [s EXCEPT !.lastError[c] = errorPayload,
                           !.outcomes[c] = @ \cup {outcome}]
        IN IF lastAttempt(l, c)
           THEN requestFailed(l, c, errorPayload)
           ELSE [l EXCEPT !.pc[c] = "sleep", !.failureCount = @ + 1]
    ) : s \in {s_}} : TRUE

\* the catch block of _executeRequestWithRetries, lines 1235-1261
attemptFailed(s_, c, errorPayload, outcome) ==
    CHOOSE n_ \in {(
        LET l == [s EXCEPT !.lastError[c] = errorPayload,
                           !.outcomes[c] = @ \cup {outcome}]
        IN IF lastAttempt(l, c)
           THEN requestFailed(l, c, errorPayload)
           ELSE [l EXCEPT !.pc[c] = "sleep"]
    ) : s \in {s_}} : TRUE

\* a success that clears the usage counter with the failure counter
firstFrameOkResetsBoth(s_, c) ==
    CHOOSE n_ \in {(
        IF s.rq[c].generative /\ s.failureCount > 0
        THEN [s EXCEPT !.failureCount = 0, !.usageCount = 0]
        ELSE s
    ) : s \in {s_}} : TRUE

\* the first frame is no error: lines 799-804, 826-829, 926-931, 1064-1071, 1131-1136
firstFrameOk(s_, c) ==
    CHOOSE n_ \in {(
        IF s.rq[c].generative /\ s.failureCount > 0
        THEN [s EXCEPT !.failureCount = 0]
        ELSE s
    ) : s \in {s_}} : TRUE

\* line 1165: res.send(fullBody || "{}"); fullBody is the sequence of payloads
sentBody(fullBody_) ==
    CHOOSE n_ \in {(
     IF fullBody = <<>> THEN <<"{}">> ELSE fullBody
    ) : fullBody \in {fullBody_}} : TRUE

\* STREAM_END was dequeued: lines 831-856, 947-1033, 1088-1101, 1153-1167, 1274-1278
streamEnded(s_, c) ==
    CHOOSE n_ \in {(
        LET path == Path(s, c) IN
        finallyBlock(
            CASE path = "nonstream" ->
                    [s EXCEPT !.res[c].status = 200, !.res[c].headersSent = TRUE,
                              !.res[c].ended = TRUE,
                              !.res[c].body = sentBody(@)]
              [] path = "oaiBuffered" /\ ~s.rq[c].stream ->
                    IF s.res[c].body = <<>>
                    THEN _sendErrorResponse(s, c, 500, "Failed to parse backend response")
                    ELSE [s EXCEPT !.res[c].status = 200, !.res[c].headersSent = TRUE,
                                   !.res[c].ended = TRUE]
              [] path \in {"oaiReal", "oaiBuffered"} ->
                    [s EXCEPT !.res[c].status = 200, !.res[c].headersSent = TRUE,
                              !.res[c].body = Append(@, "[DONE]")]
              [] OTHER ->
                    [s EXCEPT !.res[c].status = 200, !.res[c].headersSent = TRUE],
            c)
    ) : s \in {s_}} : TRUE

\* a frame of the body loops that is not STREAM_END: lines 847, 942-944,
\* 1083-1086, 1148-1150, 1280-1289
bodyFrame(s_, c, m) ==
    CHOOSE n_ \in {(
        IF m.type = "chunk"
        THEN IF Path(s, c) \in {"real", "oaiReal"}
             THEN write(s, c, m.data)
             ELSE [s EXCEPT !.res[c].body = Append(@, m.data)]
        ELSE s
    ) : s \in {s_}} : TRUE

\* a dequeue of the call was rejected: "Queue timeout" (timeout) or a closed queue
dequeueRejected(s_, c, timeout) ==
    CHOOSE n_ \in {(
        CASE s.pc[c] = "first" ->
                attemptFailed(s, c, [status |-> 500, aborted |-> FALSE,
                                     att |-> s.attempt[c]], "silent")
          [] s.pc[c] = "body" /\ Path(s, c) = "real" /\ timeout ->
                finallyBlock(s, c)                          \* lines 1102-1106
          [] OTHER -> finallyBlock(_handleRequestError(s, c, timeout), c)
    ) : s \in {s_}} : TRUE

RECURSIVE frameDequeued(_, _, _)

\* await messageQueue.dequeue(...) at position where of the call
awaitFrame(s_, c, where) ==
    CHOOSE n_ \in {(
        LET r == dequeue(s.queues[c], c)
            n == [s EXCEPT !.queues[c] = r.q, !.pc[c] = where]
        IN CASE r.out = "resolved" -> frameDequeued(n, c, r.msg)
             [] r.out = "pending" -> n
             [] OTHER -> dequeueRejected(n, c, FALSE)
    ) : s \in {s_}} : TRUE

\* the continuation of a dequeue that resolved with frame m
frameDequeued(s_, c, m) ==
    CHOOSE n_ \in {(
        CASE s.pc[c] = "first" ->                       \* lines 1216-1234
                IF m.type = "error"
                THEN attemptFailed(s, c, [status |-> m.status, aborted |-> m.aborted,
                                          att |-> m.att], "error")
                ELSE awaitFrame([firstFrameOk(s, c) EXCEPT
                                    !.outcomes[c] = @ \cup {"ok"}], c, "body")
          [] s.pc[c] = "header" ->                      \* lines 784-786, 1048-1050
                IF m.type = "error"
                THEN requestFailed(s, c, [status |-> m.status, aborted |-> m.aborted,
                                          att |-> m.att])
                ELSE awaitFrame(firstFrameOk(s, c), c, "body")
          [] OTHER ->
                IF m.type = "STREAM_END"
                THEN streamEnded(s, c)
                ELSE awaitFrame(bodyFrame(s, c, m), c, "body")
    ) : s \in {s_}} : TRUE

\* a check that lets every call in
underMaintenanceNever(s_) ==
    CHOOSE n_ \in {(
     FALSE
    ) : s \in {s_}} : TRUE

\* lines 568, 640 and 727: the system is switching or recovering
underMaintenance(s_) ==
    CHOOSE n_ \in {(
     s.isSystemBusy
    ) : s \in {s_}} : TRUE

\* one iteration of the loop of _executeRequestWithRetries up to its dequeue
\* (lines 1212-1216); without a channel _forwardRequest throws (1477)
attemptStart(s_, c) ==
    CHOOSE n_ \in {(
        IF s.connected
        THEN awaitFrame(_forwardRequest(s, c), c, "first")
        ELSE attemptFailed(s, c, [status |-> 500, aborted |-> FALSE,
                                  att |-> s.attempt[c]], "nochannel")
    ) : s \in {s_}} : TRUE

\* a dispatch that sends every call through _executeRequestWithRetries
isRealStreamNever(path_) ==
    CHOOSE n_ \in {(
     FALSE
    ) : path \in {path_}} : TRUE

\* lines 683-690 and 743, 782: the paths that forward once and stream the frames
isRealStream(path_) ==
    CHOOSE n_ \in {(
     path \in {"real", "oaiReal"}
    ) : path \in {path_}} : TRUE

\* lines 759-765: the translation of a chat-dialect body throws or not
translationSucceeds(r_) ==
    CHOOSE n_ \in {(
     r.dialect = "native" \/ r.translatable
    ) : r \in {r_}} : TRUE

\* processRequest / processOpenAIRequest after the connection check:
\* lines 640-700 and 727-814
processRequest(s_, c) ==
    CHOOSE n_ \in {(
        IF underMaintenance(s)
        THEN [_sendErrorResponse(s, c, 503, "maintenance") EXCEPT !.pc[c] = "done"]
        ELSE LET u == IF s.rq[c].generative THEN incrementUsageCount(s) ELSE s
                 f == IF s.rq[c].generative /\ shouldSwitchByUsage(u)
                      THEN [u EXCEPT !.needsSwitchingAfterRequest = TRUE,
                                     !.trigger = IF s.needsSwitchingAfterRequest
                                                 THEN @ ELSE c]
                      ELSE u
                 q == [f EXCEPT !.queues[c] = MessageQueue, !.attempt[c] = 1]
             IN IF ~translationSucceeds(s.rq[c])
                THEN [_sendErrorResponse(f, c, 400, "Invalid OpenAI request format.")
                          EXCEPT !.pc[c] = "done"]
                ELSE IF isRealStream(Path(q, c))
                THEN IF q.connected
                     THEN awaitFrame(_forwardRequest(q, c), c, "header")
                     ELSE finallyBlock(_handleRequestError(q, c, FALSE), c)
                ELSE attemptStart(q, c)
    ) : s \in {s_}} : TRUE

\* a recovery that returns with isSystemBusy still set
recoveryReturnsKeepsBusy(s_, c, recovered, message) ==
    CHOOSE n_ \in {(
        IF recovered
        THEN processRequest(s, c)
        ELSE [_sendErrorResponse(s, c, 503, message) EXCEPT !.pc[c] = "done"]
    ) : s \in {s_}} : TRUE

\* the outcome of _handleBrowserRecovery once its switch or launch is over:
\* true continues the request, false has answered 503 (lines 602-627)
recoveryReturns(s_, c, recovered, message) ==
    CHOOSE n_ \in {(
        LET f == [s EXCEPT !.isSystemBusy = FALSE] IN
        IF recovered
        THEN processRequest(f, c)
        ELSE [_sendErrorResponse(f, c, 503, message) EXCEPT !.pc[c] = "done"]
    ) : s \in {s_}} : TRUE

\* line 588
shouldRelaunch(recoveryAuthIndex_) ==
    CHOOSE n_ \in {(
     recoveryAuthIndex > 0
    ) : recoveryAuthIndex \in {recoveryAuthIndex_}} : TRUE

\* _handleBrowserRecovery, lines 567-601, up to its first suspension
_handleBrowserRecovery(s_, c) ==
    CHOOSE n_ \in {(
        IF underMaintenance(s)
        THEN [_sendErrorResponse(s, c, 503, "maintenance") EXCEPT !.pc[c] = "done"]
        ELSE LET b == [s EXCEPT !.isSystemBusy = TRUE]
                 recoveryAuthIndex == s.currentAuthIndex    \* line 584: currentAuthIndex || 0
             IN IF shouldRelaunch(recoveryAuthIndex)
                THEN launchBegin([b EXCEPT !.pc[c] = "recovery",
                                           !.sw[c].target = recoveryAuthIndex])
                ELSE LET n == switchToNextAuth(b, c, 0) IN
                     IF n.sw[c].pc # "idle"
                     THEN [n EXCEPT !.pc[c] = "recoveryswitch"]
                     ELSE recoveryReturns(n, c, TRUE, "")
    ) : s \in {s_}} : TRUE

\* the launch awaited by _handleBrowserRecovery settles (lines 590-624)
recoveryLaunchSettled(s_, c, ok) ==
    CHOOSE n_ \in {(
        LET t == [s EXCEPT !.sw[c].target = NoIdx] IN
        IF ok
        THEN recoveryReturns(launchSucceeded(t, s.sw[c].target), c, TRUE, "")
        ELSE LET f == launchFailed(t) IN
             IF Len(availableIndices) > 1
             THEN LET n == switchToNextAuth(f, c, 0) IN
                  IF n.sw[c].pc # "idle"
                  THEN [n EXCEPT !.pc[c] = "recoveryswitch"]
                  ELSE recoveryReturns(n, c, TRUE, "")
             ELSE recoveryReturns(f, c, FALSE, "Browser crashed and cannot auto-recover")
    ) : s \in {s_}} : TRUE

\* the switch of caller p is over: its awaiting caller continues
switchCallerContinues(s_, p) ==
    CHOOSE n_ \in {(
        LET n == [s EXCEPT !.sw[p] = IdleSwitch] IN
        IF s.sw[p].pc # "idle" THEN s
        ELSE IF p \notin Calls THEN n
        ELSE CASE s.pc[p] = "failswitch" -> afterFailureSwitch(n, p)
               [] s.pc[p] = "recoveryswitch" ->
                    recoveryReturns(n, p, s.sw[p].result = "success", "All accounts failed")
               [] OTHER -> n
    ) : s \in {s_}} : TRUE

(***************************************************************************)
(* ConnectionRegistry (not among the sources; from its callers and the     *)
(* design): a frame of the agent is enqueued on the queue of its request   *)
(* id, or discarded when that queue was removed.  A waiter that is handed  *)
(* the frame continues at once.                                            *)
(***************************************************************************)
routeFrame(s_, c, m) ==
    CHOOSE n_ \in {(
        IF s.queues[c].closed THEN s
        ELSE LET r == enqueue(s.queues[c], m)
                 n == [s EXCEPT !.queues[c] = r.q]
             IN IF r.resolved = c THEN frameDequeued(n, c, m) ELSE n
    ) : s \in {s_}} : TRUE

(***************************************************************************)
(* ConfigLoader.loadConfiguration, configLoader.js 21-103: the defaults,   *)
(* overridden by config.json, overridden by the environment.  A variable   *)
(* of the environment is a string, "" when it is not set.                  *)
(***************************************************************************)
EnvStrings == {"", "0", "1", "2", "x"}

NaN == [nan |-> TRUE, n |-> 0]

\* parseInt(str, 10) on the strings of EnvStrings
parseInt(str_) ==
    CHOOSE n_ \in {(
        CASE str = "0" -> [nan |-> FALSE, n |-> 0]
          [] str = "1" -> [nan |-> FALSE, n |-> 1]
          [] str = "2" -> [nan |-> FALSE, n |-> 2]
          [] OTHER -> NaN
    ) : str \in {str_}} : TRUE

\* lines 57-65: if (process.env.X) config.x = parseInt(process.env.X, 10) || config.x
envOverride(str_, current) ==
    CHOOSE n_ \in {(
        IF str # ""
        THEN (IF parseInt(str).nan \/ parseInt(str).n = 0 THEN current ELSE parseInt(str).n)
        ELSE current
    ) : str \in {str_}} : TRUE

NoEnv == [FAILURE_THRESHOLD |-> "", SWITCH_ON_USES |-> "", MAX_RETRIES |-> ""]

\* lines 22-38
defaultConfig ==
    [failureThreshold |-> 3, immediateSwitchStatusCodes |-> {429, 503},
     maxRetries |-> 3, switchOnUses |-> 40]

\* fileConfig holds the keys that config.json sets
loadConfiguration(fileConfig_, e) ==
    CHOOSE n_ \in {(
        LET merged == [key \in DOMAIN defaultConfig |->
                          IF key \in DOMAIN fileConfig THEN fileConfig[key]
                          ELSE defaultConfig[key]]                       \* line 44
        IN [failureThreshold |-> envOverride(e.FAILURE_THRESHOLD, merged.failureThreshold),
            switchOnUses |-> envOverride(e.SWITCH_ON_USES, merged.switchOnUses),
            maxRetries |-> envOverride(e.MAX_RETRIES, merged.maxRetries),
            immediateSwitchStatusCodes |->
                {code \in merged.immediateSwitchStatusCodes : code >= 400 /\ code <= 599}]
    ) : fileConfig \in {fileConfig_}} : TRUE

(***************************************************************************)
(* Configurations the engine is started with.                              *)
(***************************************************************************)
Pools == {<<0>>, <<1, 2>>, <<0, 1, 2>>}

Configs ==
    [maxRetries : 1..MaxRetriesBound, switchOnUses : {2},
     failureThreshold : {2}, immediateSwitchStatusCodes : {{429}}]

\* the longest retry loop is explored with the pool of one account
EngineInit ==
    /\ config \in Configs
    /\ availableIndices \in Pools
    /\ config.maxRetries = MaxRetriesBound => availableIndices = <<0>>
    /\ streamingMode \in {"real", "fake"}
    /\ env = NoEnv
    /\ EngineIdle

EngineInitConcurrent ==
    /\ config \in {c \in Configs : c.maxRetries = 1}
    /\ availableIndices = <<0, 1>>
    /\ streamingMode = "real"
    /\ env = NoEnv
    /\ EngineIdle

\* operations of the agent for one request id, by position
Operations == 1..2

\* the targetIndex of an operator's switch request
Targets == 0..2

(***************************************************************************)
(* The steps of the engine: what runs between two suspensions, as a        *)
(* function of the state.                                                  *)
(***************************************************************************)
\* ProxyServerSystem.start, part_004 57-91: the servers listen and the startup
\* loop launches its first account in the same turn
startupBegin(s_) ==
    CHOOSE n_ \in {(
        launchBegin([s EXCEPT !.isSystemBusy = TRUE,
                              !.startup = [pc |-> "launch", k |-> 1]])
    ) : s \in {s_}} : TRUE

\* part_004 91-110: the launch of the startup loop settles
startupLaunchSettled(s_, ok) ==
    CHOOSE n_ \in {(
        LET k == s.startup.k IN
        IF ok
        THEN [launchSucceeded(s, availableIndices[k]) EXCEPT
                 !.isSystemBusy = FALSE, !.startup.pc = "done"]
        ELSE IF k < Len(availableIndices)
        THEN launchBegin([launchFailed(s) EXCEPT !.isSystemBusy = TRUE,
                                                 !.startup.k = k + 1])
        ELSE [launchFailed(s) EXCEPT !.isSystemBusy = FALSE, !.startup.pc = "done"]
    ) : s \in {s_}} : TRUE

\* an inbound call r in slot c: processRequest / processOpenAIRequest,
\* lines 631-638 and 718-725
arrive(s_, c, r) ==
    CHOOSE n_ \in {(
        LET n == [s EXCEPT !.rq[c] = r] IN
        IF ~n.connected THEN _handleBrowserRecovery(n, c) ELSE processRequest(n, c)
    ) : s \in {s_}} : TRUE

\* the launch awaited by a switchToNextAuth / switchToSpecificAuth settles
switchSettled(s_, p, ok) ==
    CHOOSE n_ \in {(
     switchCallerContinues(switchLaunchSettled(s, p, ok), p)
    ) : s \in {s_}} : TRUE

\* the retry delay of _executeRequestWithRetries is over (line 1260)
retryTimer(s_, c) ==
    CHOOSE n_ \in {(
     attemptStart([s EXCEPT !.attempt[c] = @ + 1], c)
    ) : s \in {s_}} : TRUE

\* the timer of the call's pending dequeue fires (messageQueue.js 45-51); an
\* operation of the agent that stayed silent that long stays silent
dequeueTimeout(s_, c) ==
    CHOOSE n_ \in {(
        dequeueRejected([s EXCEPT !.queues[c] = timeoutFired(@, c).q,
                                  !.agent[c] = <<>>], c, TRUE)
    ) : s \in {s_}} : TRUE

\* the timer fires while the operations of the agent for the call still run:
\* nothing tells the agent of the timeout (authSwitcher.js 1235-1261)
dequeueTimeoutLate(s_, c) ==
    CHOOSE n_ \in {(
        dequeueRejected([s EXCEPT !.queues[c] = timeoutFired(@, c).q], c, TRUE)
    ) : s \in {s_}} : TRUE

\* build.js 410-416, 458-465: operation k of the agent for call c fails
agentError(s_, c, k, e) ==
    CHOOSE n_ \in {(
        routeFrame([s EXCEPT !.agent[c] = RemoveAt(@, k)], c,
                   Frame("error", e.status, "", e.aborted, s.agent[c][k].att))
    ) : s \in {s_}} : TRUE

\* build.js 374, 426-436: the response headers
agentHeaders(s_, c, k) ==
    CHOOSE n_ \in {(
        routeFrame([s EXCEPT !.agent[c][k].st = "streaming"], c,
                   Frame("response_headers", 200, "", FALSE, s.agent[c][k].att))
    ) : s \in {s_}} : TRUE

\* build.js 392, 404, 438-445: a chunk of the body
agentChunk(s_, c, k, data) ==
    CHOOSE n_ \in {(
        routeFrame([s EXCEPT !.agent[c][k].chunks = @ + 1], c,
                   Frame("chunk", 0, data, FALSE, s.agent[c][k].att))
    ) : s \in {s_}} : TRUE

\* build.js 407, 447-453: stream_close, which the registry hands over as STREAM_END
agentStreamEnd(s_, c, k) ==
    CHOOSE n_ \in {(
        routeFrame([s EXCEPT !.agent[c] = RemoveAt(@, k)], c,
                   Frame("STREAM_END", 0, "", FALSE, s.agent[c][k].att))
    ) : s \in {s_}} : TRUE

\* the agent's channel closes: the registry has no connection any more
channelDrop(s_) ==
    CHOOSE n_ \in {(
     [s EXCEPT !.connected = FALSE, !.agent = [c \in Calls |-> <<>>]]
    ) : s \in {s_}} : TRUE

\* lines 2036-2043: the browser disconnects unexpectedly
browserCrash(s_) ==
    CHOOSE n_ \in {(
     [channelDrop(s) EXCEPT !.currentAuthIndex = NoIdx]
    ) : s \in {s_}} : TRUE

\* lines 888-902: the keep-alive timer of _handlePseudoStreamResponse fires and
\* writes a comment line, which flushes the response headers
keepAlive(s_, c) ==
    CHOOSE n_ \in {(
        IF s.res[c].ended THEN s
        ELSE [s EXCEPT !.res[c].headersSent = TRUE,
                       !.res[c].status = IF @ = 0 THEN 200 ELSE @]
    ) : s \in {s_}} : TRUE

\* lines 1366-1379
_cancelBrowserRequest(s_, c) ==
    CHOOSE n_ \in {(
        IF s.connected THEN [s EXCEPT !.cancels[c] = @ + 1] ELSE s
    ) : s \in {s_}} : TRUE

\* the client closes the connection of call c: the 'close' handler that
\* processRequest registered (lines 672-677); processOpenAIRequest registers none
clientClose(s_, c) ==
    CHOOSE n_ \in {(
        IF s.rq[c].dialect = "native" /\ ~s.res[c].ended
        THEN _cancelBrowserRequest(s, c)
        ELSE s
    ) : s \in {s_}} : TRUE

\* a call that is over leaves nothing behind: its slot is free again
release(s_) ==
    CHOOSE n_ \in {(
        LET over == {c \in Calls : s.pc[c] = "done"}
            free(f, idle) == [c \in Calls |-> IF c \in over THEN idle ELSE f[c]]
        IN [s EXCEPT !.pc = free(@, "idle"), !.rq = free(@, NoRequest),
                     !.attempt = free(@, 0), !.lastError = free(@, NoError),
                     !.res = free(@, NoResponse), !.queues = free(@, NoQueue),
                     !.agent = free(@, <<>>), !.forwards = free(@, 0),
                     !.cancels = free(@, 0),
                     !.outcomes = free(@, {})]
    ) : s \in {s_}} : TRUE

\* the engine's state becomes m
Assign(m) ==
    /\ currentAuthIndex' = m.currentAuthIndex
    /\ failureCount' = m.failureCount
    /\ usageCount' = m.usageCount
    /\ isSystemBusy' = m.isSystemBusy
    /\ needsSwitchingAfterRequest' = m.needsSwitchingAfterRequest
    /\ connected' = m.connected
    /\ startup' = m.startup
    /\ sw' = m.sw
    /\ pc' = m.pc
    /\ rq' = m.rq
    /\ attempt' = m.attempt
    /\ lastError' = m.lastError
    /\ res' = m.res
    /\ queues' = m.queues
    /\ agent' = m.agent
    /\ forwards' = m.forwards
    /\ cancels' = m.cancels
    /\ outcomes' = m.outcomes
    /\ trigger' = m.trigger
    /\ UNCHANGED <<cfgvars, qvars, fvars>>

\* the engine takes the step whose result is n
Becomes(n) == \E e \in {n} : \E m \in {release(e)} : Assign(m)

(***************************************************************************)
(* Actions of the engine.                                                  *)
(***************************************************************************)
StartupBegin ==
    /\ startup.pc = "boot"
    /\ Becomes(startupBegin(State))

StartupLaunchSettled(ok) ==
    /\ startup.pc = "launch"
    /\ Becomes(startupLaunchSettled(State, ok))

\* a call may arrive once the HTTP server listens; it takes the first free slot
CanArrive(c) ==
    /\ startup.pc # "boot"
    /\ pc[c] = "idle"
    /\ \A d \in Calls : d < c => pc[d] # "idle"
    /\ usageCount < MaxUses /\ failureCount < MaxUses

Arrive(c, r) ==
    /\ CanArrive(c)
    /\ Becomes(arrive(State, c, r))

RecoveryLaunchSettled(c, ok) ==
    /\ pc[c] = "recovery"
    /\ Becomes(recoveryLaunchSettled(State, c, ok))

SwitchLaunchSettled(p, ok) ==
    /\ sw[p].pc # "idle"
    /\ Becomes(switchSettled(State, p, ok))

RetryTimer(c) ==
    /\ pc[c] = "sleep"
    /\ Becomes(retryTimer(State, c))

DequeueTimeout(c) ==
    /\ pc[c] \in {"first", "header", "body"}
    /\ timeoutFired(queues[c], c).rejected
    /\ Becomes(dequeueTimeout(State, c))

DequeueTimeoutLate(c) ==
    /\ pc[c] \in {"first", "header", "body"}
    /\ timeoutFired(queues[c], c).rejected
    /\ agent[c] # <<>>
    /\ Becomes(dequeueTimeoutLate(State, c))

AgentError(c, k, e) ==
    /\ connected
    /\ k \in 1..Len(agent[c])
    /\ Becomes(agentError(State, c, k, e))

AgentHeaders(c, k) ==
    /\ connected
    /\ k \in 1..Len(agent[c])
    /\ agent[c][k].st = "new"
    /\ Becomes(agentHeaders(State, c, k))

AgentChunk(c, k, data) ==
    /\ connected
    /\ k \in 1..Len(agent[c])
    /\ agent[c][k].st = "streaming"
    /\ agent[c][k].chunks < MaxChunks
    /\ Becomes(agentChunk(State, c, k, data))

AgentStreamEnd(c, k) ==
    /\ connected
    /\ k \in 1..Len(agent[c])
    /\ agent[c][k].st = "streaming"
    /\ Becomes(agentStreamEnd(State, c, k))

\* StatusRoutes.js 110-118: PUT /api/accounts/current with a targetIndex
OperatorSwitchTo(targetIndex) ==
    /\ startup.pc # "boot"
    /\ sw[Operator].pc = "idle"
    /\ Becomes(switchToSpecificAuth(State, Operator, targetIndex))

\* StatusRoutes.js 119-133: PUT /api/accounts/current without a targetIndex
OperatorSwitchNext ==
    /\ startup.pc # "boot"
    /\ sw[Operator].pc = "idle"
    /\ Len(availableIndices) > 1
    /\ Becomes(switchToNextAuth(State, Operator, 0))

\* the timer runs from the entry of _handlePseudoStreamResponse to its finally
\* block; after the first comment line a further one changes nothing
KeepAlive(c) ==
    /\ pc[c] \in {"first", "sleep", "body", "failswitch"}
    /\ PathOf(rq[c]) = "pseudo"
    /\ ~res[c].headersSent
    /\ Becomes(keepAlive(State, c))

\* the client goes away while the handler of its call is suspended
ClientClose(c) ==
    /\ pc[c] \in {"first", "sleep", "header", "body", "failswitch"}
    /\ ~res[c].ended
    /\ cancels[c] = 0
    /\ Becomes(clientClose(State, c))

ChannelDrop ==
    /\ connected
    /\ Becomes(channelDrop(State))

BrowserCrash ==
    /\ connected
    /\ Becomes(browserCrash(State))

(***************************************************************************)
(* The stand-alone queue: one MessageQueue, dequeue callers 1..MaxDequeues.*)
(*   queue     the MessageQueue                                            *)
(*   promise   per caller: state of the promise its dequeue returned       *)
(*   timer     per caller: its timeout is armed                            *)
(*   enqLog    frames passed to enqueue while the queue was open           *)
(*   deqLog    frames the dequeue calls resolved with, in call order       *)
(*   waited    some dequeue found the buffer empty (a waiter was pending)  *)
(***************************************************************************)
Unsettled == [st |-> "none", msg |-> NoMsg]

QInit ==
    /\ queue = MessageQueue
    /\ promise = [w \in Waiters |-> Unsettled]
    /\ timer = [w \in Waiters |-> FALSE]
    /\ enqLog = <<>>
    /\ deqLog = <<>>
    /\ waited = FALSE

NextCaller == Cardinality({w \in Waiters : promise[w].st # "none"}) + 1

QEnqueue(f) ==
    /\ Len(enqLog) < MaxEnqueues
    /\ LET r == enqueue(queue, [type |-> f]) IN
       /\ queue' = r.q
       /\ promise' = IF r.resolved # NoWaiter
                     THEN [promise EXCEPT ![r.resolved] = [st |-> "resolved", msg |-> [type |-> f]]]
                     ELSE promise
       /\ enqLog' = IF queue.closed THEN enqLog ELSE Append(enqLog, [type |-> f])
    /\ UNCHANGED <<timer, deqLog, waited>>
    /\ UNCHANGED <<cfgvars, evars, fvars>>

QDequeue ==
    /\ NextCaller \in Waiters
    /\ LET w == NextCaller
           r == dequeue(queue, w) IN
       /\ queue' = r.q
       /\ promise' = [promise EXCEPT ![w] =
                        CASE r.out = "throw" -> [st |-> "closed", msg |-> NoMsg]
                          [] r.out = "resolved" -> [st |-> "resolved", msg |-> r.msg]
                          [] OTHER -> [st |-> "pending", msg |-> NoMsg]]
       /\ timer' = [timer EXCEPT ![w] = (r.out = "pending")]
       /\ deqLog' = IF r.out = "resolved" THEN Append(deqLog, r.msg) ELSE deqLog
       /\ waited' = (waited \/ r.out = "pending")
    /\ UNCHANGED enqLog
    /\ UNCHANGED <<cfgvars, evars, fvars>>

QTimeout(w) ==
    /\ timer[w]
    /\ LET r == timeoutFired(queue, w) IN
       /\ queue' = r.q
       /\ promise' = IF r.rejected
                     THEN [promise EXCEPT ![w] = [st |-> "timeout", msg |-> NoMsg]]
                     ELSE promise
    /\ timer' = [timer EXCEPT ![w] = FALSE]
    /\ UNCHANGED <<enqLog, deqLog, waited>>
    /\ UNCHANGED <<cfgvars, evars, fvars>>

QClose ==
    /\ LET r == close(queue) IN
       /\ queue' = r.q
       /\ promise' = [w \in Waiters |->
                        IF \E i \in 1..Len(r.rejected) : r.rejected[i] = w
                        THEN [st |-> "closed", msg |-> NoMsg]
                        ELSE promise[w]]
       /\ timer' = [w \in Waiters |->
                        IF \E i \in 1..Len(r.rejected) : r.rejected[i] = w
                        THEN FALSE ELSE timer[w]]
    /\ UNCHANGED <<enqLog, deqLog, waited>>
    /\ UNCHANGED <<cfgvars, evars, fvars>>

QNext ==
    \/ \E f \in FrameNames : QEnqueue(f)
    \/ QDequeue
    \/ \E w \in Waiters : QTimeout(w)
    \/ QClose

(***************************************************************************)
(* FormatConverter, formatConverter.js.                                    *)
(*                                                                         *)
(* A JavaScript value that may be missing is a sequence of length 0 or 1.  *)
(* A text is the sequence of its pieces, so that += is \o.  A thinking     *)
(* config of the client is [include_thoughts, includeThoughts], each       *)
(* "true", "false" or Undefined.  Of the six places line 93-99 looks at    *)
(* the body names the first (extra_body.google.thinking_config) and the    *)
(* last (thinking_config).                                                 *)
(***************************************************************************)
MaxParts == 2

Undefined == "undefined"

ThinkingConfigs ==
    [include_thoughts : {Undefined, "true", "false"},
     includeThoughts : {Undefined, "true", "false"}]

OpenAIBodies ==
    [google_thinking_config : {<<>>} \cup {<<r>> : r \in ThinkingConfigs},
     thinking_config : {<<>>, <<[include_thoughts |-> "true", includeThoughts |-> Undefined]>>},
     reasoning_effort : {"", "high"}]

\* a part of candidate.content.parts; inlineData names the image
Parts == [thought : BOOLEAN, text : {<<>>, <<"a">>}, inlineData : {<<>>, <<"i">>}]

GoogleResponses ==
    {[candidates |-> <<>>]}
        \cup {[candidates |-> <<[parts |-> ps, finishReason |-> f]>>] :
                 ps \in UNION {[1..n -> Parts] : n \in 0..MaxParts},
                 f \in {"", "STOP"}}

\* lines 93-99: the first place that holds a config
rawThinkingConfig(body_) ==
    CHOOSE n_ \in {(
        IF body.google_thinking_config # <<>>
        THEN body.google_thinking_config
        ELSE body.thinking_config
    ) : body \in {body_}} : TRUE

\* lines 103-110: {} with includeThoughts copied when the client defined it
extractThinkingConfig(raw_) ==
    CHOOSE n_ \in {(
        [includeThoughts |-> IF raw.include_thoughts # Undefined
                             THEN raw.include_thoughts
                             ELSE raw.includeThoughts]
    ) : raw \in {raw_}} : TRUE

\* a translation in which the force-thinking setting is looked at first
translateForcedFirst(body_, force) ==
    CHOOSE n_ \in {(
        LET raw == rawThinkingConfig(body)
            explicit == IF raw # <<>> THEN <<extractThinkingConfig(raw[1])>> ELSE <<>>
            effort == IF explicit = <<>> /\ body.reasoning_effort # ""
                      THEN <<[includeThoughts |-> "true"]>>
                      ELSE explicit
        IN [thinkingConfig |-> IF force THEN <<[includeThoughts |-> "true"]>> ELSE effort]
    ) : body \in {body_}} : TRUE

\* translateOpenAIToGoogle, lines 91-138: generationConfig.thinkingConfig of
\* the request it returns
translateOpenAIToGoogle(body_, force) ==
    CHOOSE n_ \in {(
        LET raw == rawThinkingConfig(body)
            explicit == IF raw # <<>> THEN <<extractThinkingConfig(raw[1])>> ELSE <<>>
            effort == IF explicit = <<>> /\ body.reasoning_effort # ""
                      THEN <<[includeThoughts |-> "true"]>>
                      ELSE explicit
            forced == IF force /\ effort = <<>>
                      THEN <<[includeThoughts |-> "true"]>>
                      ELSE effort
        IN [thinkingConfig |-> forced]
    ) : body \in {body_}} : TRUE

\* lines 242 and 322: the markdown rendering of an image
markdownImage(inlineData_) ==
    CHOOSE n_ \in {(
     <<"![Generated Image]", inlineData[1]>>
    ) : inlineData \in {inlineData_}} : TRUE

RECURSIVE streamAccumulate(_, _)
\* lines 245-258: [content, reasoning] over the parts
streamAccumulate(parts_, acc) ==
    CHOOSE n_ \in {(
        IF parts = <<>> THEN acc
        ELSE LET part == Head(parts) IN
             streamAccumulate(Tail(parts),
                 IF part.thought
                 THEN [acc EXCEPT !.reasoning_content = @ \o part.text]
                 ELSE [acc EXCEPT !.content = @ \o part.text])
    ) : parts \in {parts_}} : TRUE

RECURSIVE findImagePart(_)
\* line 238: parts.find(p => p.inlineData)
findImagePart(parts_) ==
    CHOOSE n_ \in {(
        IF parts = <<>> THEN <<>>
        ELSE IF Head(parts).inlineData # <<>> THEN <<Head(parts)>>
        ELSE findImagePart(Tail(parts))
    ) : parts \in {parts_}} : TRUE

\* translateGoogleToOpenAIStream, lines 213-288, of a chunk that parses as
\* response: <<>> for null, else <<the delta>>; a field of the delta that is
\* not set is the empty text
translateGoogleToOpenAIStream(response_) ==
    CHOOSE n_ \in {(
        IF response.candidates = <<>> THEN <<>>
        ELSE LET candidate == response.candidates[1]
                 imagePart == findImagePart(candidate.parts)
                 delta == IF imagePart # <<>>
                          THEN [content |-> markdownImage(imagePart[1].inlineData),
                                reasoning_content |-> <<>>]
                          ELSE streamAccumulate(candidate.parts,
                                   [content |-> <<>>, reasoning_content |-> <<>>])
             IN IF delta.content = <<>> /\ delta.reasoning_content = <<>>
                   /\ candidate.finishReason = ""
                THEN <<>>
                ELSE <<delta>>
    ) : response \in {response_}} : TRUE

RECURSIVE nonStreamAccumulate(_, _)
\* lines 315-324
nonStreamAccumulate(parts_, acc) ==
    CHOOSE n_ \in {(
        IF parts = <<>> THEN acc
        ELSE LET part == Head(parts) IN
             nonStreamAccumulate(Tail(parts),
                 IF part.thought
                 THEN [acc EXCEPT !.reasoning_content = @ \o part.text]
                 ELSE IF part.text # <<>>
                 THEN [acc EXCEPT !.content = @ \o part.text]
                 ELSE IF part.inlineData # <<>>
                 THEN [acc EXCEPT !.content = @ \o markdownImage(part.inlineData)]
                 ELSE acc)
    ) : parts \in {parts_}} : TRUE

\* convertGoogleToOpenAINonStream, lines 293-348: the message
convertGoogleToOpenAINonStream(response_) ==
    CHOOSE n_ \in {(
        IF response.candidates = <<>>
        THEN [content |-> <<>>, reasoning_content |-> <<>>]
        ELSE nonStreamAccumulate(response.candidates[1].parts,
                                 [content |-> <<>>, reasoning_content |-> <<>>])
    ) : response \in {response_}} : TRUE

\* no translation is going on
FInit ==
    /\ forceThinking = FALSE
    /\ openaiBody = [google_thinking_config |-> <<>>, thinking_config |-> <<>>,
                     reasoning_effort |-> ""]
    /\ googleRequest = <<>>
    /\ googleResponse = [candidates |-> <<>>]
    /\ openAIChunk = <<>>
    /\ openAIResponse = <<>>

TranslateRequest ==
    /\ googleRequest = <<>>
    /\ googleRequest' = <<translateOpenAIToGoogle(openaiBody, forceThinking)>>
    /\ UNCHANGED <<forceThinking, openaiBody, googleResponse, openAIChunk, openAIResponse>>
    /\ UNCHANGED <<cfgvars, evars, qvars>>

TranslateStream ==
    /\ openAIChunk = <<>>
    /\ openAIChunk' = <<translateGoogleToOpenAIStream(googleResponse)>>
    /\ UNCHANGED <<forceThinking, openaiBody, googleRequest, googleResponse, openAIResponse>>
    /\ UNCHANGED <<cfgvars, evars, qvars>>

ConvertNonStream ==
    /\ openAIResponse = <<>>
    /\ openAIResponse' = <<convertGoogleToOpenAINonStream(googleResponse)>>
    /\ UNCHANGED <<forceThinking, openaiBody, googleRequest, googleResponse, openAIChunk>>
    /\ UNCHANGED <<cfgvars, evars, qvars>>

FNext == TranslateRequest \/ TranslateStream \/ ConvertNonStream

(***************************************************************************)
(* The engine's specification.                                             *)
(***************************************************************************)
\* calls one after the other: a call arrives when the one before is over
Init == EngineInit /\ QInit /\ FInit

Next ==
    \/ StartupBegin
    \/ \E ok \in BOOLEAN : StartupLaunchSettled(ok)
    \/ \E r \in Requests : Arrive(1, r)
    \/ \E c \in Calls : RetryTimer(c)
    \/ \E c \in Calls, ok \in BOOLEAN : RecoveryLaunchSettled(c, ok)
    \/ \E p \in Procs, ok \in BOOLEAN : SwitchLaunchSettled(p, ok)
    \/ \E c \in Calls : DequeueTimeout(c)
    \/ \E c \in Calls, k \in Operations, e \in ErrorFrames : AgentError(c, k, e)
    \/ \E c \in Calls, k \in Operations : AgentHeaders(c, k)
    \/ \E c \in Calls, k \in Operations, d \in ChunkData : AgentChunk(c, k, d)
    \/ \E c \in Calls, k \in Operations : AgentStreamEnd(c, k)
    \/ \E t \in Targets : OperatorSwitchTo(t)
    \/ OperatorSwitchNext
    \/ ChannelDrop
    \/ BrowserCrash

vars == <<cfgvars, evars, qvars, fvars>>

Spec == Init /\ [][Next]_vars

\* concurrent calls: NumCalls calls may be in flight together, each making a
\* single attempt
InitConcurrent == EngineInitConcurrent /\ QInit /\ FInit

NextConcurrent ==
    \/ StartupBegin
    \/ \E ok \in BOOLEAN : StartupLaunchSettled(ok)
    \/ \E c \in Calls, r \in Requests : Arrive(c, r)
    \/ \E c \in Calls, ok \in BOOLEAN : RecoveryLaunchSettled(c, ok)
    \/ \E p \in Procs, ok \in BOOLEAN : SwitchLaunchSettled(p, ok)
    \/ \E c \in Calls : DequeueTimeout(c)
    \/ \E c \in Calls, k \in Operations, e \in ErrorFrames : AgentError(c, k, e)
    \/ \E c \in Calls, k \in Operations : AgentHeaders(c, k)
    \/ \E c \in Calls, k \in Operations, d \in ChunkData : AgentChunk(c, k, d)
    \/ \E c \in Calls, k \in Operations : AgentStreamEnd(c, k)
    \/ \E t \in Targets : OperatorSwitchTo(t)
    \/ OperatorSwitchNext
    \/ ChannelDrop
    \/ BrowserCrash

SpecConcurrent == InitConcurrent /\ [][NextConcurrent]_vars

\* the queue alone, beside an engine that is not started
InitQueue ==
    /\ QInit /\ EngineIdle /\ FInit
    /\ config = [maxRetries |-> 1, switchOnUses |-> 0, failureThreshold |-> 0,
                 immediateSwitchStatusCodes |-> {}]
    /\ availableIndices = <<0>>
    /\ streamingMode = "real"
    /\ env = NoEnv

\* the switching policy and the client's side of a call: configurations as
\* loadConfiguration builds them from config.json and the environment, calls one
\* after the other with one attempt each, keep-alive timers that fire and
\* clients that go away
FileConfigs ==
    [maxRetries : {1}, switchOnUses : {2}, failureThreshold : {0, 2},
     immediateSwitchStatusCodes : {{429}}]

Envs ==
    {NoEnv,
     [NoEnv EXCEPT !.FAILURE_THRESHOLD = "0", !.SWITCH_ON_USES = "0"],
     [NoEnv EXCEPT !.FAILURE_THRESHOLD = "1"]}

InitPolicy ==
    /\ env \in Envs
    /\ \E fileConfig \in FileConfigs : config = loadConfiguration(fileConfig, env)
    /\ availableIndices = <<0, 1>>
    /\ streamingMode \in {"real", "fake"}
    /\ EngineIdle
    /\ QInit
    /\ FInit

NextPolicy ==
    \/ StartupBegin
    \/ \E ok \in BOOLEAN : StartupLaunchSettled(ok)
    \/ \E r \in Requests : Arrive(1, r)
    \/ \E c \in Calls, ok \in BOOLEAN : RecoveryLaunchSettled(c, ok)
    \/ \E p \in Procs, ok \in BOOLEAN : SwitchLaunchSettled(p, ok)
    \/ \E c \in Calls : DequeueTimeout(c)
    \/ \E c \in Calls, k \in Operations, e \in ErrorFrames : AgentError(c, k, e)
    \/ \E c \in Calls, k \in Operations : AgentHeaders(c, k)
    \/ \E c \in Calls, k \in Operations, d \in ChunkData : AgentChunk(c, k, d)
    \/ \E c \in Calls, k \in Operations : AgentStreamEnd(c, k)
    \/ \E t \in Targets : OperatorSwitchTo(t)
    \/ OperatorSwitchNext
    \/ \E c \in Calls : KeepAlive(c)
    \/ \E c \in Calls : ClientClose(c)
    \/ ChannelDrop
    \/ BrowserCrash

SpecPolicy == InitPolicy /\ [][NextPolicy]_vars

SpecQueue == InitQueue /\ [][QNext]_vars

\* progress: calls one after the other with up to two attempts each, two
\* accounts.  A launch that was started settles (launchOrSwitchContext resolves
\* or rejects), a timer that was set fires (the retry delay, the timeout of a
\* pending dequeue); the agent and the operator are free to do nothing.
\* late frames: the agent answers an attempt after its dequeue timed out
InitLate ==
    /\ config \in {c \in Configs : c.maxRetries = 2}
    /\ availableIndices = <<0, 1>>
    /\ streamingMode = "real"
    /\ env = NoEnv
    /\ EngineIdle /\ QInit /\ FInit

NextLate ==
    \/ Next
    \/ \E c \in Calls : DequeueTimeoutLate(c)
    \/ \E c \in Calls : ClientClose(c)

SpecLate == InitLate /\ [][NextLate]_vars

InitLive ==
    /\ config \in {c \in Configs : c.maxRetries = 2}
    /\ availableIndices = <<0, 1>>
    /\ streamingMode \in {"real", "fake"}
    /\ env = NoEnv
    /\ EngineIdle /\ QInit /\ FInit

Fairness ==
    /\ WF_vars(StartupBegin)
    /\ WF_vars(\E ok \in BOOLEAN : StartupLaunchSettled(ok))
    /\ WF_vars(\E c \in Calls, ok \in BOOLEAN : RecoveryLaunchSettled(c, ok))
    /\ WF_vars(\E p \in Procs, ok \in BOOLEAN : SwitchLaunchSettled(p, ok))
    /\ WF_vars(\E c \in Calls : RetryTimer(c))
    /\ WF_vars(\E c \in Calls : DequeueTimeout(c))

SpecLive == InitLive /\ [][Next]_vars /\ Fairness

\* progress whatever the agent does, late frames included, with one account
\* and while the operator stays away: the timer of a dequeue fires whether the operations of the agent
\* are over or not
InitTermination ==
    /\ config \in {c \in Configs : c.maxRetries = 2}
    /\ availableIndices = <<1>>
    /\ streamingMode \in {"real", "fake"}
    /\ env = NoEnv
    /\ EngineIdle /\ QInit /\ FInit

NextTermination ==
    \/ StartupBegin
    \/ \E ok \in BOOLEAN : StartupLaunchSettled(ok)
    \/ \E r \in Requests : Arrive(1, r)
    \/ \E c \in Calls : RetryTimer(c)
    \/ \E c \in Calls, ok \in BOOLEAN : RecoveryLaunchSettled(c, ok)
    \/ \E p \in Procs, ok \in BOOLEAN : SwitchLaunchSettled(p, ok)
    \/ \E c \in Calls : DequeueTimeout(c)
    \/ \E c \in Calls : DequeueTimeoutLate(c)
    \/ \E c \in Calls, k \in Operations, e \in ErrorFrames : AgentError(c, k, e)
    \/ \E c \in Calls, k \in Operations : AgentHeaders(c, k)
    \/ \E c \in Calls, k \in Operations, d \in ChunkData : AgentChunk(c, k, d)
    \/ \E c \in Calls, k \in Operations : AgentStreamEnd(c, k)
    \/ ChannelDrop

SpecTermination ==
    /\ InitTermination /\ [][NextTermination]_vars
    /\ Fairness
    /\ WF_vars(\E c \in Calls : DequeueTimeoutLate(c))

\* the converter alone, beside an engine that is not started: a request body
\* and a response are given, and each translation is made once
InitConverter ==
    /\ QInit /\ EngineIdle
    /\ config = [maxRetries |-> 1, switchOnUses |-> 0, failureThreshold |-> 0,
                 immediateSwitchStatusCodes |-> {}]
    /\ availableIndices = <<0>>
    /\ streamingMode = "fake"
    /\ env = NoEnv
    /\ forceThinking \in BOOLEAN
    /\ openaiBody \in OpenAIBodies
    /\ googleRequest = <<>>
    /\ googleResponse \in GoogleResponses
    /\ openAIChunk = <<>>
    /\ openAIResponse = <<>>

SpecConverter == InitConverter /\ [][FNext]_vars

(***************************************************************************)
(* C1  Retry bound: a call never forwards its request more often than      *)
(* maxRetries.  While every attempt of _executeRequestWithRetries has been *)
(* answered by an error frame, the error frame for the pending attempt     *)
(* either leads to the retry delay with fewer than maxRetries forwards     *)
(* made, or ends the loop in failure with exactly maxRetries forwards made *)
(* and the error of attempt number maxRetries as the error returned.       *)
(***************************************************************************)
RetryBound ==
    \A c \in Calls :
        /\ forwards[c] <= config.maxRetries
        /\ \A k \in Operations, e \in ErrorFrames :
              (/\ connected /\ k \in 1..Len(agent[c])
               /\ pc[c] = "first" /\ outcomes[c] \subseteq {"error"})
              => LET n == agentError(State, c, k, e) IN
                 \/ n.pc[c] = "sleep" /\ n.forwards[c] < config.maxRetries
                 \/ /\ n.pc[c] \notin {"first", "sleep"}
                    /\ n.forwards[c] = config.maxRetries
                    /\ n.lastError[c] = [status |-> e.status, aborted |-> e.aborted,
                                         att |-> config.maxRetries]

\* the third attempt of a call with maxRetries = 3 is pending, the first two were
\* answered by error frames, and an error frame for it ends the call
RetryBoundWitness ==
    \E c \in Calls, e \in ErrorFrames :
        /\ config.maxRetries = MaxRetriesBound
        /\ connected /\ Len(agent[c]) = 1 /\ pc[c] = "first"
        /\ outcomes[c] = {"error"} /\ forwards[c] = MaxRetriesBound
        /\ agentError(State, c, 1, e).pc[c] = "done"
        /\ agentError(State, c, 1, e).lastError[c].att = MaxRetriesBound

\* call c is waiting for the first frame of its last attempt (or for the header
\* frame of a real stream), so that an error frame now makes the call fail
AwaitsVerdict(c) ==
    \/ pc[c] = "header"
    \/ pc[c] = "first" /\ lastAttempt(State, c)

(***************************************************************************)
(* C4  Cancellation exclusion: on every dispatch path, when the error      *)
(* frame that makes a call fail is an "aborted" one, failureCount stays as *)
(* it was and no switchToNextAuth is started for the call.                 *)
(***************************************************************************)
AbortedNotCounted ==
    \A c \in Calls, k \in Operations, e \in ErrorFrames :
        (/\ connected /\ k \in 1..Len(agent[c])
         /\ AwaitsVerdict(c) /\ e.aborted)
        => LET n == agentError(State, c, k, e) IN
           /\ n.failureCount = failureCount
           /\ n.sw[c].pc = "idle"

\* the exclusion as the native paths have it (lines 908, 1051, 1121)
AbortedNotCountedNative ==
    \A c \in Calls, k \in Operations, e \in ErrorFrames :
        (/\ connected /\ k \in 1..Len(agent[c])
         /\ AwaitsVerdict(c) /\ e.aborted /\ rq[c].dialect = "native")
        => LET n == agentError(State, c, k, e) IN
           /\ n.failureCount = failureCount
           /\ n.sw[c].pc = "idle"

(***************************************************************************)
(* The walk of switchToNextAuth over a pool of several accounts that       *)
(* started with account cur0 current: the other accounts in cyclic order   *)
(* starting just after cur0, then cur0 itself.                             *)
(***************************************************************************)
WalkOrder(cur0) ==
    LET n == Len(availableIndices) IN
    [j \in 1..n |-> available((indexOf(cur0) + j) % n)]

\* p runs the walk of switchToNextAuth, started with a current account of the pool
Walking(p) ==
    /\ Len(availableIndices) > 1
    /\ sw[p].pc \in {"loop", "final"}
    /\ indexOf(sw[p].cur0) # -1

(***************************************************************************)
(* C5  A switchToNextAuth over several accounts whose pending candidate    *)
(* can be established ends there: that candidate is the first account, in  *)
(* cyclic order starting just after the previous current account, that did *)
(* not fail, it becomes the current account, and failureCount and          *)
(* usageCount are 0.                                                       *)
(***************************************************************************)
SwitchSuccess ==
    \A p \in Procs :
        Walking(p) =>
            LET a == sw[p]
                n == switchLaunchSettled(State, p, TRUE)
                j == Len(a.failedAccounts) + 1
            IN /\ a.target = WalkOrder(a.cur0)[j]
               /\ \A i \in 1..(j - 1) : a.failedAccounts[i] = WalkOrder(a.cur0)[i]
               /\ n.sw[p].result = "success"
               /\ n.sw[p].newIndex = a.target
               /\ n.currentAuthIndex = a.target
               /\ n.failureCount = 0
               /\ n.usageCount = 0

\* pool [0, 1, 2], the switch began at account 0, account 1 failed, account 2
\* is being established and the counters are not 0
SwitchSuccessWitness ==
    \E p \in Procs :
        /\ Walking(p)
        /\ availableIndices = <<0, 1, 2>>
        /\ sw[p].cur0 = 0 /\ sw[p].failedAccounts = <<1>> /\ sw[p].target = 2
        /\ usageCount > 0 /\ failureCount > 0
        /\ switchLaunchSettled(State, p, TRUE).currentAuthIndex = 2

(***************************************************************************)
(* C6  The order of the walk: the accounts that failed so far followed by  *)
(* the pending candidate are a prefix without repetition of the other      *)
(* accounts in cyclic order starting just after the current one, followed  *)
(* by the current one, so there are at most n attempts and the original    *)
(* account is attempted only once and last; a success ends the walk, a     *)
(* failure before the last attempt goes on to the next account in order.   *)
(***************************************************************************)
WalkInOrder ==
    \A p \in Procs :
        Walking(p) =>
            LET a == sw[p]
                n == Len(availableIndices)
                j == Len(a.failedAccounts) + 1
                tried == Append(a.failedAccounts, a.target)
                ok == switchLaunchSettled(State, p, TRUE)
                ko == switchLaunchSettled(State, p, FALSE)
            IN /\ j <= n
               /\ \A i \in 1..j : tried[i] = WalkOrder(a.cur0)[i]
               /\ (a.target = a.cur0) = (j = n)
               /\ (a.pc = "final") = (j = n)
               /\ ok.sw[p].pc = "idle"
               /\ IF j < n
                  THEN /\ ko.sw[p].pc # "idle"
                       /\ ko.sw[p].failedAccounts = tried
                       /\ ko.sw[p].target = WalkOrder(a.cur0)[j + 1]
                  ELSE ko.sw[p].pc = "idle"

\* pool [0, 1, 2], the switch began at account 1: accounts 2 and 0 failed, in
\* this order, and the original account 1 is attempted last
WalkInOrderWitness ==
    \E p \in Procs :
        /\ Walking(p)
        /\ availableIndices = <<0, 1, 2>>
        /\ sw[p].cur0 = 1 /\ sw[p].failedAccounts = <<2, 0>> /\ sw[p].target = 1
        /\ sw[p].pc = "final"

(***************************************************************************)
(* C7  When the final attempt at the original account fails too, the       *)
(* switch throws and no account is current: currentAuthIndex is -1.        *)
(***************************************************************************)
TotalFailureLeavesNone ==
    \A p \in Procs :
        (Len(availableIndices) > 1 /\ sw[p].pc = "final")
        => LET n == switchLaunchSettled(State, p, FALSE) IN
           /\ n.sw[p].result = "thrown"
           /\ n.currentAuthIndex = NoIdx

(***************************************************************************)
(* C9  Recovery: a call that arrives with no connection while nothing is   *)
(* switching or recovering starts one launch before anything is rejected,  *)
(* for the current account when there is one, index 0 included, else for   *)
(* the first available account.                                            *)
(***************************************************************************)
RecoveryTarget ==
    IF currentAuthIndex # NoIdx THEN currentAuthIndex ELSE available(0)

RecoveryLaunches ==
    \A c \in Calls, r \in Requests :
        (CanArrive(c) /\ ~connected /\ ~isSystemBusy)
        => LET n == arrive(State, c, r) IN
           /\ n.sw[c].target = RecoveryTarget
           /\ n.pc[c] \in {"recovery", "recoveryswitch"}

(***************************************************************************)
(* C2  Usage-ceiling scheduling: while the switch that a usage ceiling     *)
(* asked for is running, the call that reached the ceiling is over and its *)
(* response is ended; the switch is never started by another call that     *)
(* finishes while the triggering call is still in flight.                  *)
(***************************************************************************)
UsageSwitchAfterResponse ==
    \A a \in Calls :
        (sw[Bg(a)].pc # "idle" /\ sw[Bg(a)].trigger \in Calls)
        => pc[sw[Bg(a)].trigger] = "idle"

(***************************************************************************)
(* C3  Mutual exclusion: at most one caller has a launchOrSwitchContext    *)
(* that has not settled, and isSystemBusy is set while it has; while       *)
(* isSystemBusy is set, a switchToNextAuth, a switchToSpecificAuth and the *)
(* recovery of an arriving call launch nothing, and the startup loop has   *)
(* begun before any of them can.                                           *)
(***************************************************************************)
OneLaunchAtATime ==
    /\ Cardinality(Launching) <= 1
    /\ Launching # {} => isSystemBusy
    /\ startup.pc = "boot" => Launching = {} /\ ~isSystemBusy
    /\ isSystemBusy =>
          /\ \A p \in Procs : sw[p].pc = "idle" =>
                /\ switchToNextAuth(State, p, 0).sw = sw
                /\ \A t \in Targets : switchToSpecificAuth(State, p, t).sw = sw
          /\ \A c \in Calls, r \in Requests : CanArrive(c) =>
                /\ arrive(State, c, r).sw = sw
                /\ arrive(State, c, r).pc[c] = "done"

\* a call recovers the browser while another call is in flight; an operator's
\* switch, a switch to the next account and the recovery of one more call
\* would find isSystemBusy set
OneLaunchAtATimeWitness ==
    \E c, d \in Calls :
        /\ Launching = {c} /\ pc[c] = "recovery"
        /\ pc[d] \notin {"idle", "recovery"}
        /\ isSystemBusy /\ ~connected
        /\ sw[Operator].pc = "idle"

(***************************************************************************)
(* C8  Maintenance: a call of either dialect that arrives while            *)
(* isSystemBusy is set is answered 503 "maintenance" and is over; no queue *)
(* is created, nothing is forwarded, the agent is given nothing, the       *)
(* counters and the switch flag are as before and no switch is started.    *)
(***************************************************************************)
MaintenanceRejects ==
    \A c \in Calls, r \in Requests :
        (CanArrive(c) /\ isSystemBusy)
        => LET n == arrive(State, c, r) IN
           /\ n.res[c].status = 503 /\ n.res[c].msg = "maintenance"
           /\ n.res[c].ended
           /\ n.pc[c] = "done"
           /\ n.queues = queues
           /\ n.forwards = forwards
           /\ n.agent = agent
           /\ n.usageCount = usageCount
           /\ n.failureCount = failureCount
           /\ n.needsSwitchingAfterRequest = needsSwitchingAfterRequest
           /\ n.sw = sw
           /\ n.currentAuthIndex = currentAuthIndex
           /\ n.isSystemBusy

\* a switch runs with the agent still connected and a call in flight, and a
\* chat-dialect call that arrives now is answered 503
MaintenanceRejectsWitness ==
    \E c, d \in Calls :
        /\ CanArrive(c) /\ isSystemBusy /\ connected
        /\ pc[d] = "first"
        /\ LET r == [dialect |-> "openai", stream |-> TRUE, generative |-> TRUE,
                        translatable |-> TRUE]
           IN arrive(State, c, r).res[c].status = 503

(***************************************************************************)
(* C10  Queue FIFO: as long as the queue is open and no dequeue ever found *)
(* the buffer empty, the frames returned by the dequeue calls followed by  *)
(* the frames still buffered are exactly the frames enqueued, in enqueue   *)
(* order: the i-th dequeue returned the i-th enqueued frame, none lost or  *)
(* duplicated.                                                             *)
(***************************************************************************)
QueueFifo ==
    (~queue.closed /\ ~waited) =>
        /\ deqLog \o queue.messages = enqLog
        /\ \A i \in 1..Len(deqLog) : deqLog[i] = enqLog[i]

QueueFifoWitness ==
    /\ ~queue.closed /\ ~waited
    /\ Len(deqLog) = 3
    /\ deqLog[1] # deqLog[2] /\ deqLog[2] # deqLog[3]
    /\ Len(queue.messages) = 1

(***************************************************************************)
(* C11  Dequeue timeout isolation: a dequeue that timed out is no longer   *)
(* registered as a waiter, so a frame enqueued afterwards is never handed  *)
(* to it; with no other waiter pending the frame is buffered behind the    *)
(* frames already there and the next dequeue returns the oldest buffered   *)
(* frame (the new frame itself when the buffer was empty).  The outcome of *)
(* the timed-out call stays the timeout.                                   *)
(***************************************************************************)
TimedOut(w) == promise[w].st = "timeout"

TimeoutIsolation ==
    /\ [](\A w \in Waiters : TimedOut(w) =>
            /\ IndexOf(queue.waitingResolvers, w) = 0
            /\ \A f \in FrameNames :
                  LET r == enqueue(queue, [type |-> f]) IN
                  /\ r.resolved # w
                  /\ (~queue.closed /\ queue.waitingResolvers = <<>>) =>
                        /\ r.q.messages = Append(queue.messages, [type |-> f])
                        /\ \A v \in Waiters :
                              /\ dequeue(r.q, v).out = "resolved"
                              /\ dequeue(r.q, v).msg = Head(r.q.messages))
    /\ [][\A w \in Waiters : TimedOut(w) => promise'[w] = promise[w]]_vars

\* the first dequeue timed out on the empty open queue, nobody else waits, and
\* a frame enqueued now is what the next dequeue returns
TimeoutIsolationWitness ==
    /\ TimedOut(1) /\ ~timer[1]
    /\ ~queue.closed /\ queue.waitingResolvers = <<>> /\ queue.messages = <<>>
    /\ NextCaller = 2
    /\ enqueue(queue, [type |-> "f1"]).resolved = NoWaiter
    /\ dequeue(enqueue(queue, [type |-> "f1"]).q, 2).msg = [type |-> "f1"]

\* a frame e for operation k of call c can be delivered now and makes the call
\* fail with a failure that is not a cancellation
FailsWith(c, k, e) ==
    /\ connected /\ k \in 1..Len(agent[c])
    /\ AwaitsVerdict(c)
    /\ ~e.aborted

(***************************************************************************)
(* C12  Immediate-switch codes: a single error frame whose status is in    *)
(* immediateSwitchStatusCodes makes the call's failure handling start      *)
(* switchToNextAuth and wait for it, whatever failureCount and             *)
(* failureThreshold are (0 included); failureCount is incremented.  While  *)
(* another switch or a recovery holds isSystemBusy the switchToNextAuth    *)
(* that is called declines, and nothing is started.                        *)
(***************************************************************************)
ImmediateSwitch ==
    \A c \in Calls, k \in Operations, e \in ErrorFrames :
        (FailsWith(c, k, e) /\ e.status \in config.immediateSwitchStatusCodes)
        => LET n == agentError(State, c, k, e) IN
           /\ n.failureCount = failureCount + 1
           /\ ~isSystemBusy =>
                 /\ n.sw[c].pc # "idle"
                 /\ n.isSystemBusy
                 /\ n.pc[c] = "failswitch"
           /\ isSystemBusy => n.sw = sw

\* failureThreshold is 0, no failure was counted yet, nothing is switching, and
\* a 429 for the pending call starts the switch
ImmediateSwitchWitness ==
    \E c \in Calls :
        /\ config.failureThreshold = 0 /\ failureCount = 0 /\ ~isSystemBusy
        /\ FailsWith(c, 1, [status |-> 429, aborted |-> FALSE])
        /\ agentError(State, c, 1, [status |-> 429, aborted |-> FALSE]).sw[c].pc = "loop"

(***************************************************************************)
(* C13  Failure accounting: every failure that is reported increments      *)
(* failureCount by one.  For a status outside immediateSwitchStatusCodes   *)
(* (an error frame, or the 500 of a dequeue that timed out) a              *)
(* switchToNextAuth is started if and only if failureThreshold > 0 and the *)
(* incremented failureCount is at least failureThreshold; with             *)
(* failureThreshold = 0 none is started.                                   *)
(***************************************************************************)
ThresholdDecides(n, c) ==
    /\ n.failureCount = failureCount + 1
    /\ ~isSystemBusy =>
          (n.sw[c].pc # "idle"
              <=> (config.failureThreshold > 0
                      /\ failureCount + 1 >= config.failureThreshold))
    /\ config.failureThreshold = 0 => n.sw[c].pc = "idle"

FailureAccounting ==
    \A c \in Calls :
        /\ \A k \in Operations, e \in ErrorFrames :
              (FailsWith(c, k, e) /\ e.status \notin config.immediateSwitchStatusCodes)
              => ThresholdDecides(agentError(State, c, k, e), c)
        /\ (pc[c] = "first" /\ lastAttempt(State, c)
                /\ timeoutFired(queues[c], c).rejected)
              => ThresholdDecides(dequeueTimeout(State, c), c)

\* failureThreshold is 2 and one failure is counted: a 500 for the pending call
\* is the second one and starts the switch
FailureAccountingWitness ==
    \E c \in Calls :
        /\ config.failureThreshold = 2 /\ failureCount = 1 /\ ~isSystemBusy
        /\ FailsWith(c, 1, [status |-> 500, aborted |-> FALSE])
        /\ agentError(State, c, 1, [status |-> 500, aborted |-> FALSE]).sw[c].pc = "loop"
        /\ agentError(State, c, 1, [status |-> 500, aborted |-> FALSE]).failureCount = 2

(***************************************************************************)
(* C14  Success resets the failure count: when the stream end of a call    *)
(* completes its response with status 200, failureCount is 0, whatever the *)
(* dialect, the path and the kind of the request.                          *)
(***************************************************************************)
SuccessResetsFailures ==
    \A c \in Calls, k \in Operations :
        (/\ connected /\ k \in 1..Len(agent[c])
         /\ agent[c][k].st = "streaming" /\ pc[c] = "body")
        => LET n == agentStreamEnd(State, c, k) IN
           (n.pc[c] = "done" /\ n.res[c].ended /\ n.res[c].status = 200)
               => n.failureCount = 0

\* the call is on a path that answers with an event stream
StreamingPath(c) ==
    \/ PathOf(rq[c]) = "pseudo"
    \/ rq[c].dialect = "openai" /\ rq[c].stream

\* the pending dequeue of the call can time out now and the call fails with it
TimesOut(c) ==
    /\ pc[c] \in {"first", "header", "body"}
    /\ pc[c] = "first" => lastAttempt(State, c)
    /\ timeoutFired(queues[c], c).rejected

\* response r carries a JSON error body or an inline error event
ErrorIndicated(r) ==
    \/ r.status >= 400 /\ r.msg # ""
    \/ \E i \in 1..Len(r.body) : r.body[i] = "error"

(***************************************************************************)
(* C15  Error delivery on the streaming paths: a call on the native pseudo *)
(* stream or on a chat-dialect stream that fails with an error frame that  *)
(* is no cancellation, or with a dequeue that times out, has an error      *)
(* indication in its response: the JSON error body, or an inline error     *)
(* event when the headers were flushed before, by a keep-alive comment or  *)
(* by an event of the stream.                                              *)
(***************************************************************************)
ErrorDelivered ==
    \A c \in Calls :
        StreamingPath(c) =>
            /\ \A k \in Operations, e \in ErrorFrames :
                  FailsWith(c, k, e) => ErrorIndicated(agentError(State, c, k, e).res[c])
            /\ TimesOut(c) => ErrorIndicated(dequeueTimeout(State, c).res[c])

(***************************************************************************)
(* C16  Terminal marker: a chat-dialect event stream of which an event was *)
(* flushed ends with the event "[DONE]" when the response is closed, by    *)
(* the stream end of the agent or by a dequeue that times out.             *)
(***************************************************************************)
EndsWithDone(r) == r.ended => (r.body # <<>> /\ r.body[Len(r.body)] = "[DONE]")

DoneTerminates ==
    \A c \in Calls :
        (/\ rq[c].dialect = "openai" /\ rq[c].stream
         /\ pc[c] = "body" /\ res[c].headersSent)
        => /\ TimesOut(c) => EndsWithDone(dequeueTimeout(State, c).res[c])
           /\ \A k \in Operations :
                 (connected /\ k \in 1..Len(agent[c]) /\ agent[c][k].st = "streaming")
                 => EndsWithDone(agentStreamEnd(State, c, k).res[c])

(***************************************************************************)
(* C17  Client disconnect: when the client of a call in flight, native or  *)
(* chat dialect, goes away before the response is ended and the agent's    *)
(* channel is active, one cancel_request for the call is sent.             *)
(***************************************************************************)
DisconnectCancels ==
    \A c \in Calls :
        (/\ pc[c] \in {"first", "sleep", "header", "body", "failswitch"}
         /\ ~res[c].ended /\ cancels[c] = 0 /\ connected)
        => clientClose(State, c).cancels[c] = 1

ZeroDisables ==
    /\ env.SWITCH_ON_USES = "0" =>
          /\ config.switchOnUses = 0
          /\ ~needsSwitchingAfterRequest
          /\ \A c \in Calls : sw[Bg(c)].pc = "idle"
    /\ env.FAILURE_THRESHOLD = "0" => config.failureThreshold = 0

(***************************************************************************)
(* C20  switchToSpecificAuth rejects: called while isSystemBusy is set, or *)
(* with a targetIndex that is not in availableIndices, it starts no launch *)
(* and leaves the whole state as it is: currentAuthIndex, usageCount,      *)
(* failureCount and isSystemBusy included.                                 *)
(***************************************************************************)
InPool(targetIndex) ==
    \E i \in 1..Len(availableIndices) : availableIndices[i] = targetIndex

SwitchToRejected ==
    \A targetIndex \in Targets :
        (/\ startup.pc # "boot" /\ sw[Operator].pc = "idle"
         /\ (isSystemBusy \/ ~InPool(targetIndex)))
        => switchToSpecificAuth(State, Operator, targetIndex) = State

\* an account is current and in use, nothing is switching, and the operator
\* names an account that is not in the pool
SwitchToRejectedWitness ==
    \E targetIndex \in Targets :
        /\ startup.pc = "done" /\ sw[Operator].pc = "idle"
        /\ ~isSystemBusy /\ ~InPool(targetIndex)
        /\ currentAuthIndex # NoIdx /\ usageCount > 0 /\ failureCount > 0
        /\ switchToSpecificAuth(State, Operator, targetIndex).currentAuthIndex
               = currentAuthIndex

(***************************************************************************)
(* C21  Single account: in a pool of one account switchToNextAuth launches *)
(* that account, once.  When the launch succeeds the account is current,   *)
(* both counters are 0 and isSystemBusy is released; when it fails the     *)
(* switch throws without another attempt, the counters are as they were    *)
(* and isSystemBusy is released.                                           *)
(***************************************************************************)
SingleAccountSwitch ==
    \A p \in Procs :
        (Len(availableIndices) = 1) =>
            /\ sw[p].pc \notin {"loop", "final"}
            /\ sw[p].pc = "single" =>
                  LET ok == switchLaunchSettled(State, p, TRUE)
                      ko == switchLaunchSettled(State, p, FALSE)
                  IN /\ sw[p].target = availableIndices[1]
                     /\ sw[p].failedAccounts = <<>>
                     /\ isSystemBusy
                     /\ ok.sw[p].pc = "idle" /\ ok.sw[p].result = "success"
                     /\ ok.sw[p].newIndex = availableIndices[1]
                     /\ ok.currentAuthIndex = availableIndices[1]
                     /\ ok.failureCount = 0 /\ ok.usageCount = 0
                     /\ ~ok.isSystemBusy
                     /\ ko.sw[p].pc = "idle" /\ ko.sw[p].result = "thrown"
                     /\ ko.failureCount = failureCount /\ ko.usageCount = usageCount
                     /\ ~ko.isSystemBusy

\* the usage ceiling of the only account was reached and its restart is pending
SingleAccountSwitchWitness ==
    \E p \in Procs :
        /\ availableIndices = <<0>> /\ sw[p].pc = "single"
        /\ usageCount > 0
        /\ switchLaunchSettled(State, p, FALSE).usageCount = usageCount
        /\ switchLaunchSettled(State, p, TRUE).usageCount = 0

(***************************************************************************)
(* C22  The error that switchToNextAuth throws when the final attempt      *)
(* failed too names every account whose launch failed during the switch:   *)
(* all accounts of the pool, the original one included.                    *)
(***************************************************************************)
FatalErrorNamesAll ==
    \A p \in Procs :
        (Len(availableIndices) > 1 /\ sw[p].pc = "final")
        => LET n == switchLaunchSettled(State, p, FALSE) IN
           /\ n.sw[p].result = "thrown"
           /\ n.sw[p].message.accounts = Append(sw[p].failedAccounts, sw[p].target)
           /\ \A i \in 1..Len(availableIndices) :
                 \E j \in 1..Len(n.sw[p].message.accounts) :
                     n.sw[p].message.accounts[j] = availableIndices[i]

(***************************************************************************)
(* C23  A call that arrives while no channel to the agent is active is     *)
(* served after a launch that succeeded or is answered 503; it is never    *)
(* answered another error status because nothing could be forwarded.       *)
(***************************************************************************)
NoChannelAnswer ==
    \A c \in Calls :
        /\ \A r \in Requests :
              (CanArrive(c) /\ ~connected /\ translationSucceeds(r))
              => LET n == arrive(State, c, r) IN
                 n.res[c].ended => n.res[c].status = 503
        /\ \A ok \in BOOLEAN :
              (pc[c] = "recovery" /\ translationSucceeds(rq[c]))
              => LET n == recoveryLaunchSettled(State, c, ok) IN
                 n.res[c].ended => n.res[c].status = 503

(***************************************************************************)
(* C24  A call on a buffered path (non-stream or fake-stream) whose wait   *)
(* for the first frame timed out on every attempt is answered 504.         *)
(***************************************************************************)
FirstFrameTimeout504 ==
    \A c \in Calls :
        (/\ pc[c] = "first" /\ ~isRealStream(PathOf(rq[c]))
         /\ lastAttempt(State, c) /\ outcomes[c] \subseteq {"silent"}
         /\ ~res[c].headersSent
         /\ timeoutFired(queues[c], c).rejected)
        => LET n == dequeueTimeout(State, c) IN
           /\ n.lastError[c].status = 504
           /\ n.res[c].ended => n.res[c].status = 504

(***************************************************************************)
(* C25  A chat-dialect call whose body cannot be translated is answered    *)
(* 400; no queue is created and nothing is forwarded for it, and it        *)
(* changes neither failureCount nor usageCount nor asks for a switch.      *)
(***************************************************************************)
UntranslatableNoEffect ==
    \A c \in Calls : \A r \in Requests :
        (CanArrive(c) /\ connected /\ ~isSystemBusy /\ ~translationSucceeds(r))
        => LET n == arrive(State, c, r) IN
           /\ n.res[c].status = 400 /\ n.res[c].ended
           /\ n.queues[c] = queues[c] /\ n.forwards[c] = forwards[c]
           /\ n.failureCount = failureCount
           /\ n.usageCount = usageCount
           /\ n.needsSwitchingAfterRequest = needsSwitchingAfterRequest
           /\ \A p \in Procs : n.sw[p] = sw[p]

(***************************************************************************)
(* C26  usageCount goes down only in a step in which the launch awaited by *)
(* a switch succeeds, and that step sets it to 0 before the caller goes    *)
(* on; a switch whose launch fails leaves it as it was, and no request,    *)
(* successful or failed, lowers it.                                        *)
(***************************************************************************)
UsageResetOnlyBySwitch ==
    /\ [](\A p \in Procs :
             sw[p].pc # "idle" =>
                 /\ switchLaunchSettled(State, p, TRUE).usageCount = 0
                 /\ switchLaunchSettled(State, p, FALSE).usageCount = usageCount
                 /\ switchSettled(State, p, FALSE).usageCount >= usageCount)
    /\ [][usageCount' < usageCount =>
              \E p \in Procs :
                  /\ sw[p].pc # "idle"
                  /\ switchLaunchSettled(State, p, TRUE).sw[p].result = "success"
                  /\ State' = release(switchSettled(State, p, TRUE))]_vars

\* a switch among several accounts is pending with a used account: its success
\* clears the counter, its failure does not
UsageResetOnlyBySwitchWitness ==
    \E p \in Procs :
        /\ Len(availableIndices) > 1 /\ sw[p].pc = "loop"
        /\ usageCount > 0
        /\ switchSettled(State, p, TRUE).usageCount = 0
        /\ switchSettled(State, p, FALSE).usageCount = usageCount

(***************************************************************************)
(* C27  close() rejects every pending waiter with the closed error and     *)
(* empties the buffer; a close() of a closed queue changes nothing and     *)
(* rejects nobody a second time.                                           *)
(***************************************************************************)
CloseIdempotent ==
    LET r == close(queue) IN
    /\ \A w \in Waiters :
          promise[w].st = "pending" => IndexOf(r.rejected, w) > 0
    /\ r.q.closed /\ r.q.messages = <<>> /\ r.q.waitingResolvers = <<>>
    /\ close(r.q).q = r.q /\ close(r.q).rejected = <<>>
    /\ queue.closed =>
          /\ r.q = queue /\ r.rejected = <<>>
          /\ queue.messages = <<>>
          /\ \A w \in Waiters : promise[w].st # "pending"

\* two dequeues were pending on the empty queue, nothing was enqueued, and the
\* close rejected both
CloseIdempotentWitness ==
    /\ queue.closed /\ waited /\ enqLog = <<>>
    /\ promise[1].st = "closed" /\ promise[2].st = "closed"
    /\ NextCaller = 3
    /\ close(queue).rejected = <<>>

(***************************************************************************)
(* C28  The buffer and the pending waiters are never both non-empty: a     *)
(* frame enqueued while a waiter is pending is handed to the oldest        *)
(* pending waiter and not buffered; it is buffered only when no waiter is  *)
(* pending.                                                                *)
(***************************************************************************)
BufferOrWaiters ==
    /\ ~(queue.messages # <<>> /\ queue.waitingResolvers # <<>>)
    /\ \A w \in Waiters :
          promise[w].st = "pending" <=> IndexOf(queue.waitingResolvers, w) > 0
    /\ \A f \in FrameNames :
          LET r == enqueue(queue, [type |-> f]) IN
          ~queue.closed =>
              IF \E w \in Waiters : promise[w].st = "pending"
              THEN /\ r.resolved \in Waiters
                   /\ promise[r.resolved].st = "pending"
                   /\ \A v \in Waiters : promise[v].st = "pending" => r.resolved <= v
                   /\ r.q.messages = queue.messages
              ELSE /\ r.resolved = NoWaiter
                   /\ r.q.messages = Append(queue.messages, [type |-> f])

\* the first of two pending dequeues was handed the only frame enqueued; the
\* buffer is empty and the second still waits
BufferOrWaitersWitness ==
    /\ ~queue.closed /\ Len(enqLog) = 1 /\ deqLog = <<>>
    /\ promise[1].st = "resolved" /\ promise[1].msg = enqLog[1]
    /\ promise[2].st = "pending"
    /\ queue.messages = <<>> /\ queue.waitingResolvers = <<2>>

(***************************************************************************)
(* C29  When a forward inside _executeRequestWithRetries fails because no  *)
(* channel to the agent is active, the call makes no further forward       *)
(* attempt: the failure is not retried like an error of the agent.         *)
(***************************************************************************)
NoRetryWithoutChannel ==
    \A c \in Calls :
        (/\ pc[c] = "sleep" /\ ~connected
         /\ forwards[c] > 0 /\ "nochannel" \notin outcomes[c])
        => LET n == retryTimer(State, c) IN
           /\ "nochannel" \in n.outcomes[c]
           /\ n.forwards[c] = forwards[c]
           /\ n.pc[c] # "sleep"

(***************************************************************************)
(* C30  A call on a buffered path is reported to the AuthSwitcher once,    *)
(* when its last attempt has failed: an error frame that leaves the call   *)
(* retrying does not change failureCount, the error frame that ends the    *)
(* call raises it by exactly 1 (by at most 1 when the frame says the user  *)
(* aborted), the switch that follows does not raise it again, and no step  *)
(* raises failureCount by more than 1 or while the call goes on retrying.  *)
(***************************************************************************)
Buffered(c) == PathOf(rq[c]) \in {"nonstream", "pseudo", "oaiBuffered"}

NonStreamBody ==
    \A c \in Calls : \A k \in 1..Len(agent[c]) :
        (/\ pc[c] = "body" /\ PathOf(rq[c]) = "nonstream"
         /\ connected /\ agent[c][k].st = "streaming")
        => /\ ~res[c].ended /\ ~res[c].headersSent
           /\ \A d \in ChunkData :
                 LET n == agentChunk(State, c, k, d) IN
                 /\ n.res[c].body = Append(res[c].body, d)
                 /\ ~n.res[c].ended
           /\ LET n == agentStreamEnd(State, c, k) IN
              /\ n.res[c].ended /\ n.res[c].status = 200
              /\ n.res[c].body = res[c].body

(***************************************************************************)
(* C32  The queue created for a call is registered as long as the call's   *)
(* dispatch runs and is removed when the dispatch finishes, whatever ends  *)
(* it (stream end, error frame, timeout, missing channel, failed switch);  *)
(* the client closing its connection removes nothing by itself, and a call *)
(* that is over or has not got as far as its dispatch has no queue.        *)
(***************************************************************************)
Dispatching == {"first", "header", "body", "sleep", "failswitch"}

\* in the state n after a step of call c: no queue once the call is over, the
\* queue still there while the dispatch goes on
QueueFollowsDispatch(n, c) ==
    /\ n.pc[c] = "done" => (n.queues[c].closed /\ n.res[c].ended)
    /\ n.pc[c] \in Dispatching => ~n.queues[c].closed

QueueRemovedOnce ==
    \A c \in Calls :
        /\ pc[c] \notin Dispatching => queues[c] = NoQueue
        /\ pc[c] \in Dispatching => ~queues[c].closed
        /\ (pc[c] \in Dispatching /\ ~res[c].ended) =>
              /\ clientClose(State, c).queues[c] = queues[c]
              /\ clientClose(State, c).pc[c] = pc[c]
        /\ CanArrive(c) =>
              \A r \in Requests : QueueFollowsDispatch(arrive(State, c, r), c)
        /\ pc[c] = "recovery" =>
              \A ok \in BOOLEAN :
                  QueueFollowsDispatch(recoveryLaunchSettled(State, c, ok), c)
        /\ (pc[c] \in {"recoveryswitch", "failswitch"} /\ sw[c].pc # "idle") =>
              \A ok \in BOOLEAN : QueueFollowsDispatch(switchSettled(State, c, ok), c)
        /\ pc[c] = "sleep" => QueueFollowsDispatch(retryTimer(State, c), c)
        /\ (pc[c] \in {"first", "header", "body"}
            /\ timeoutFired(queues[c], c).rejected) =>
              QueueFollowsDispatch(dequeueTimeout(State, c), c)
        /\ connected =>
              \A k \in 1..Len(agent[c]) :
                  /\ \A e \in ErrorFrames :
                        QueueFollowsDispatch(agentError(State, c, k, e), c)
                  /\ agent[c][k].st = "new" =>
                        QueueFollowsDispatch(agentHeaders(State, c, k), c)
                  /\ agent[c][k].st = "streaming" =>
                        /\ QueueFollowsDispatch(agentStreamEnd(State, c, k), c)
                        /\ \A d \in ChunkData :
                              QueueFollowsDispatch(agentChunk(State, c, k, d), c)

\* the dispatch of a call waits on its queue for the rest of the body, and the
\* stream end that arrives now finishes it and removes the queue
QueueRemovedOnceWitness ==
    \E c \in Calls :
        /\ pc[c] = "body" /\ connected /\ Len(agent[c]) = 1
        /\ agent[c][1].st = "streaming"
        /\ queues[c].waitingResolvers = <<c>>
        /\ agentStreamEnd(State, c, 1).pc[c] = "done"
        /\ agentStreamEnd(State, c, 1).queues[c].closed

(***************************************************************************)
(* C33  translateOpenAIToGoogle takes the thinking directive from the      *)
(* first of: the client's thinking config, the reasoning-effort hint, the  *)
(* force-thinking setting.  When the client gave a thinking config the     *)
(* directive is what that config says (an explicit false included) and is  *)
(* the same whatever the hint and the setting are; without one a hint      *)
(* gives includeThoughts true, without either the setting does, and        *)
(* without all three there is no directive.                                *)
(***************************************************************************)
ClientConfig(body) ==
    IF body.google_thinking_config # <<>>
    THEN body.google_thinking_config
    ELSE body.thinking_config

Said(cfg) ==
    IF cfg.include_thoughts # Undefined THEN cfg.include_thoughts ELSE cfg.includeThoughts

PlainParts(response) ==
    /\ response.candidates # <<>>
    /\ \A i \in 1..Len(response.candidates[1].parts) :
          LET part == response.candidates[1].parts[i] IN
          IF part.inlineData # <<>>
          THEN part.text = <<>> /\ ~part.thought
          ELSE part.text # <<>>

StreamEqualsBuffered ==
    (/\ openAIChunk # <<>> /\ openAIResponse # <<>>
     /\ PlainParts(googleResponse))
    => LET delta == IF openAIChunk[1] = <<>>
                    THEN [content |-> <<>>, reasoning_content |-> <<>>]
                    ELSE openAIChunk[1][1]
       IN /\ delta.content = openAIResponse[1].content
          /\ delta.reasoning_content = openAIResponse[1].reasoning_content

(***************************************************************************)
(* C35  Every dequeue call settles once: a promise that was resolved with  *)
(* a frame, rejected by its timer or rejected by close() never changes     *)
(* again, whatever fires or is called afterwards.  A frame enqueued on the *)
(* open queue goes to at most one dequeue call: the frames handed out and  *)
(* the frames still buffered are never more than the frames enqueued.      *)
(***************************************************************************)
Settled(w) == promise[w].st \in {"resolved", "timeout", "closed"}

SettlesOnce ==
    /\ [](Cardinality({w \in Waiters : promise[w].st = "resolved"})
              + Len(queue.messages) <= Len(enqLog))
    /\ [](\A w \in Waiters : Settled(w) => IndexOf(queue.waitingResolvers, w) = 0)
    /\ [][\A w \in Waiters : Settled(w) => promise'[w] = promise[w]]_vars

\* the first dequeue waited and was handed a frame by enqueue; afterwards its
\* timer fired and the queue was closed, and it is still resolved with the frame
SettlesOnceWitness ==
    /\ promise[1].st = "resolved" /\ deqLog = <<>> /\ waited
    /\ Len(enqLog) = 1 /\ promise[1].msg = enqLog[1]
    /\ ~timer[1] /\ queue.closed

(***************************************************************************)
(* C36  isSystemBusy is always released: it is set only while a launch     *)
(* that a switch, the recovery or the startup loop awaits is pending, and  *)
(* when launches settle a busy engine is not busy again later on, so that  *)
(* it never stays in the state in which every call is answered 503.        *)
(***************************************************************************)
BusyReleased ==
    /\ [](isSystemBusy => Launching # {})
    /\ (isSystemBusy ~> ~isSystemBusy)

\* the recovery of a call set isSystemBusy and awaits its launch; whether the
\* launch fails or succeeds, the recovery returns with the flag cleared
BusyReleasedWitness ==
    \E c \in Calls :
        /\ pc[c] = "recovery" /\ isSystemBusy
        /\ \A ok \in BOOLEAN : ~recoveryLaunchSettled(State, c, ok).isSystemBusy
                               \/ recoveryLaunchSettled(State, c, ok).sw[c].pc # "idle"

(***************************************************************************)
(* C40  When timers fire and launches settle, every call that arrived      *)
(* terminates: its response is ended, its queue is removed and its slot is *)
(* free again, whatever the agent does (error frames, no frame at all,     *)
(* frames after a timeout) and on every dispatch path.                     *)
(***************************************************************************)
Ended(n, c) == n.pc[c] = "done" => n.res[c].ended /\ n.queues[c] = NoQueue

CallTerminates ==
    /\ [](\A c \in Calls :
            /\ \A r \in Requests : CanArrive(c) => Ended(arrive(State, c, r), c)
            /\ pc[c] = "sleep" => Ended(retryTimer(State, c), c)
            /\ pc[c] \in {"first", "header", "body"} /\ timeoutFired(queues[c], c).rejected
                   => /\ Ended(dequeueTimeout(State, c), c)
                      /\ Ended(dequeueTimeoutLate(State, c), c)
            /\ pc[c] = "recovery"
                   => \A ok \in BOOLEAN : Ended(recoveryLaunchSettled(State, c, ok), c)
            /\ \A p \in Procs, ok \in BOOLEAN :
                   sw[p].pc # "idle" => Ended(switchSettled(State, p, ok), c)
            /\ \A k \in 1..Len(agent[c]) :
                   /\ \A e \in ErrorFrames :
                          connected => Ended(agentError(State, c, k, e), c)
                   /\ connected /\ agent[c][k].st = "streaming"
                          => Ended(agentStreamEnd(State, c, k), c))
    /\ \A c \in Calls : (pc[c] # "idle") ~> (pc[c] = "idle")

\* the second attempt of a call waits for a frame that the agent never sends:
\* the timeout of the dequeue ends the call
CallTerminatesWitness ==
    \E c \in Calls :
        /\ pc[c] = "first" /\ attempt[c] = 2 /\ agent[c] = <<>>
        /\ timeoutFired(queues[c], c).rejected
        /\ dequeueTimeout(State, c).pc[c] \in {"done", "failswitch"}

(***************************************************************************)
(* C37  Once cancel_request was sent for a call because its client went    *)
(* away, no proxy_request is forwarded for it any more: an attempt that    *)
(* the agent answers with the "aborted" error frame is not followed by the *)
(* retry delay of a further attempt.                                       *)
(***************************************************************************)
AbortedNotRetried ==
    \A c \in Calls, k \in Operations, e \in ErrorFrames :
        /\ connected /\ cancels[c] > 0 /\ pc[c] = "first"
        /\ k \in 1..Len(agent[c]) /\ e.aborted
        => LET n == agentError(State, c, k, e)
           IN n.pc[c] = "sleep" => retryTimer(n, c).forwards[c] = forwards[c]

(***************************************************************************)
(* C38  A frame that _executeRequestWithRetries takes as the answer to     *)
(* attempt k was emitted by the operation that the agent started for the   *)
(* forward of attempt k: the error that an attempt fails with is never the *)
(* frame of an operation of an earlier attempt.                            *)
(***************************************************************************)
FrameOfItsAttempt ==
    \A c \in Calls, k \in Operations, e \in ErrorFrames :
        connected /\ pc[c] = "first" /\ k \in 1..Len(agent[c])
            => agentError(State, c, k, e).lastError[c].att = attempt[c]

(***************************************************************************)
(* C39  Whenever isSystemBusy is false the current account is none (-1) or *)
(* one of availableIndices, after any sequence of switches, recoveries and *)
(* failed calls.                                                           *)
(***************************************************************************)
CurrentInPool ==
    ~isSystemBusy =>
        \/ currentAuthIndex = NoIdx
        \/ \E i \in 1..Len(availableIndices) : availableIndices[i] = currentAuthIndex

====
